---- MODULE Spec2Model ----
(***************************************************************************)
(* Verification model of the pit-controller firmware kernel.               *)
(*                                                                         *)
(* Each subsystem object is one record-valued variable whose fields carry  *)
(* the names of the C++ members (without the leading underscore).  Member  *)
(* functions are operators from an object record (and the call's inputs)   *)
(* to the object record after the call.  Temperatures and percentages are  *)
(* floats in the firmware; the model draws them from small sets of         *)
(* integers, on which the float comparisons and sums used here are exact.  *)
(***************************************************************************)
EXTENDS Integers, Sequences, FiniteSets, TLC

VARIABLES
    alarm,      \* the AlarmManager object
    almNow,     \* value millis() returns to AlarmManager (monotonic ms)
    almOp,      \* the last AlarmManager call and its arguments
    almHist,    \* history of the alarm machine used to state the properties
    fan,        \* the FanController object
    fanNow,     \* value millis() returns to FanController (monotonic ms)
    fanOp,      \* the last FanController call and its arguments
    fanHist,    \* history of the fan machine used to state the properties
    servo,      \* the ServoController object
    pid,        \* the PidController object
    pidOp,      \* the last PidController call, its arguments and its result
    session,    \* the CookSession object
    sessFile,   \* the session file on flash (LittleFS)
    sessOp,     \* the last CookSession call and what it found
    sessHist,   \* history of the session used to state the properties
    err,        \* the ErrorManager object
    errNow,     \* millis() as ErrorManager::update reads it
    errOp,      \* the last ErrorManager call and its arguments
    errHist,    \* history of the fire-out samples
    pred,       \* the TempPredictor object
    predIn,     \* the stream of samples the predictor is fed
    predOp      \* the last TempPredictor call

vars == <<alarm, almNow, almOp, almHist, fan, fanNow, fanOp, fanHist, servo,
          pid, pidOp, session, sessFile, sessOp, sessHist,
          err, errNow, errOp, errHist, pred, predIn, predOp>>
almVars == <<alarm, almNow, almOp, almHist>>
fanVars == <<fan, fanNow, fanOp, fanHist>>
servoVars == <<servo>>
pidVars == <<pid, pidOp>>
sessVars == <<session, sessFile, sessOp, sessHist>>
errVars == <<err, errNow, errOp, errHist>>
predVars == <<pred, predIn, predOp>>

\* What a call on one object leaves alone: the variables of the other objects.
notAlmVars == <<fanVars, servoVars, pidVars, sessVars, errVars, predVars>>
notFanVars == <<almVars, servoVars, pidVars, sessVars, errVars, predVars>>
notServoVars == <<almVars, fanVars, pidVars, sessVars, errVars, predVars>>
notPidVars == <<almVars, fanVars, servoVars, sessVars, errVars, predVars>>
notSessVars == <<almVars, fanVars, servoVars, pidVars, errVars, predVars>>
notErrVars == <<almVars, fanVars, servoVars, pidVars, sessVars, predVars>>
notPredVars == <<almVars, fanVars, servoVars, pidVars, sessVars, errVars>>

\* millis() is an unsigned long (32 bits).  Every clock of the model starts at
\* 0 and stays below its Max...NowMs bound, far from 2^32, so the unsigned sums
\* and differences of the code are the integer ones here.

(***************************************************************************)
(* float and double  (IEEE 754 binary32 and binary64, as the compiler      *)
(* gives them to the firmware: every operation rounds to nearest, ties to  *)
(* even)                                                                   *)
(***************************************************************************)

\* TLC's integers have 32 bits; a double's mantissa has 53.  A
\* natural number of any size is a sequence of limbs, least significant
\* first, each in 0..(Limb - 1), with no zero limb at the top; 0 is << >>.
Limb == 2^15

RECURSIVE IntBitLen(_)
IntBitLen(n) == IF n = 0 THEN 0 ELSE 1 + IntBitLen(n \div 2)

LimbBits == IntBitLen(Limb - 1)

RECURSIVE Gcd(_, _)
Gcd(a, b) == IF b = 0 THEN a ELSE Gcd(b, a % b)


RECURSIVE FromNat(_)
FromNat(n) == IF n = 0 THEN << >> ELSE <<n % Limb>> \o FromNat(n \div Limb)

\* The number a, which must be below 2^31.
RECURSIVE ToNat(_)
ToNat(a) == IF a = << >> THEN 0 ELSE a[1] + Limb * ToNat(Tail(a))

RECURSIVE BNorm(_)
BNorm(a) ==
    IF a = << >> THEN a
    ELSE IF a[Len(a)] = 0 THEN BNorm(SubSeq(a, 1, Len(a) - 1))
    ELSE a

\* a + b + c for a carry c.
RECURSIVE BAddC(_, _, _)
BAddC(a, b, c) ==
    IF a = << >> /\ b = << >> THEN (IF c = 0 THEN << >> ELSE <<c>>)
    ELSE LET t == (IF a = << >> THEN 0 ELSE a[1])
                  + (IF b = << >> THEN 0 ELSE b[1]) + c
         IN <<t % Limb>> \o BAddC(IF a = << >> THEN a ELSE Tail(a),
                                  IF b = << >> THEN b ELSE Tail(b),
                                  t \div Limb)

BAdd(a, b) == BAddC(a, b, 0)

\* a - b - c for a borrow c, where a >= b + c.
RECURSIVE BSubB(_, _, _)
BSubB(a, b, c) ==
    IF a = << >> THEN << >>
    ELSE LET t == a[1] - (IF b = << >> THEN 0 ELSE b[1]) - c
         IN <<IF t < 0 THEN t + Limb ELSE t>>
               \o BSubB(Tail(a), IF b = << >> THEN b ELSE Tail(b),
                        IF t < 0 THEN 1 ELSE 0)

BSub(a, b) == BNorm(BSubB(a, b, 0))

RECURSIVE BCmpAt(_, _, _)
BCmpAt(a, b, i) ==
    IF i = 0 THEN 0
    ELSE IF a[i] > b[i] THEN 1
    ELSE IF a[i] < b[i] THEN 0 - 1
    ELSE BCmpAt(a, b, i - 1)

\* 1, 0 or -1 as a is above, equal to or below b.
BCmp(a, b) ==
    IF Len(a) > Len(b) THEN 1
    ELSE IF Len(a) < Len(b) THEN 0 - 1
    ELSE BCmpAt(a, b, Len(a))

\* a * d + c for one limb d > 0 and a carry c.
RECURSIVE BMulSmall(_, _, _)
BMulSmall(a, d, c) ==
    IF a = << >> THEN (IF c = 0 THEN << >> ELSE <<c>>)
    ELSE LET t == a[1] * d + c
         IN <<t % Limb>> \o BMulSmall(Tail(a), d, t \div Limb)

RECURSIVE BMul(_, _)
BMul(a, b) ==
    IF a = << >> \/ b = << >> THEN << >>
    ELSE BAdd(IF b[1] = 0 THEN << >> ELSE BMulSmall(a, b[1], 0),
              IF Tail(b) = << >> THEN << >> ELSE <<0>> \o BMul(a, Tail(b)))

\* Quotient q and remainder r of a by one limb d > 0; q may carry zero
\* limbs at the top.
RECURSIVE BDivSmall(_, _)
BDivSmall(a, d) ==
    IF a = << >> THEN [ q |-> << >>, r |-> 0 ]
    ELSE LET hi == BDivSmall(Tail(a), d)
             t == hi.r * Limb + a[1]
         IN [ q |-> <<t \div d>> \o hi.q, r |-> t % d ]

BitLen(a) ==
    IF a = << >> THEN 0
    ELSE LimbBits * (Len(a) - 1) + IntBitLen(a[Len(a)])

\* a * 2^k
BShl(a, k) ==
    IF a = << >> THEN a
    ELSE [i \in 1..(k \div LimbBits) |-> 0]
            \o BMulSmall(a, 2^(k % LimbBits), 0)

\* a \div 2^k
BShr(a, k) ==
    IF k \div LimbBits >= Len(a) THEN << >>
    ELSE BNorm(BDivSmall(SubSeq(a, k \div LimbBits + 1, Len(a)),
                         2^(k % LimbBits)).q)

BIsOdd(a) == a # << >> /\ a[1] % 2 = 1

\* One step of the long division of a by b: bit i of a is brought down to
\* the remainder d.r and the next bit of the quotient d.q is found.
BDivStep(a, b, i, d) ==
    LET bit == (a[i \div LimbBits + 1] \div 2^(i % LimbBits)) % 2
        r2 == IF d.r = << >> THEN (IF bit = 1 THEN <<1>> ELSE << >>)
              ELSE BMulSmall(d.r, 2, bit)
        ge == BCmp(r2, b) >= 0
    IN [ q |-> IF d.q = << >> THEN (IF ge THEN <<1>> ELSE << >>)
               ELSE BMulSmall(d.q, 2, IF ge THEN 1 ELSE 0),
         r |-> IF ge THEN BSub(r2, b) ELSE r2 ]

\* The steps for the bits hi - 1 down to lo of a.  (The test d = d makes
\* TLC compute d before the steps that follow, not inside them.)
RECURSIVE BDivBits(_, _, _, _, _)
BDivBits(a, b, lo, hi, d) ==
    IF d = d /\ hi <= lo THEN d
    ELSE IF hi - lo = 1 THEN BDivStep(a, b, lo, d)
    ELSE BDivBits(a, b, lo, (lo + hi) \div 2,
                  BDivBits(a, b, (lo + hi) \div 2, hi, d))

\* Quotient q and remainder r of a by b > 0.
BDivMod(a, b) ==
    IF Len(b) = 1
    THEN LET d == BDivSmall(a, b[1])
         IN [ q |-> BNorm(d.q), r |-> FromNat(d.r) ]
    ELSE IF BitLen(a) < BitLen(b) THEN [ q |-> << >>, r |-> a ]
    ELSE LET low == BitLen(a) - BitLen(b) + 1
         IN BDivBits(a, b, 0, low, [ q |-> << >>, r |-> BShr(a, low) ])

\* A float or double is the number m * 2^e, negative if neg; 0 has the
\* mantissa << >>.  The model's values stay far inside the exponent range:
\* no overflow, no subnormal numbers, no NaN.
FZero == [ neg |-> FALSE, m |-> << >>, e |-> 0 ]

\* Mantissa bits of float and of double.
FloatBits == 24
DoubleBits == 53

\* m * 2^e rounded to p mantissa bits, to nearest, ties to even.
FRound(neg, m, e, p) ==
    IF m = << >> THEN FZero
    ELSE IF BitLen(m) <= p THEN [ neg |-> neg, m |-> m, e |-> e ]
    ELSE LET k == BitLen(m) - p
             q == BShr(m, k)
             c == BCmp(BSub(m, BShl(q, k)), BShl(<<1>>, k - 1))
             up == c > 0 \/ (c = 0 /\ BIsOdd(q))
         IN [ neg |-> neg, m |-> IF up THEN BAdd(q, <<1>>) ELSE q,
              e |-> e + k ]

\* The whole number n as a value of p mantissa bits.
FFromInt(n, p) == FRound(n < 0, FromNat(IF n < 0 THEN 0 - n ELSE n), 0, p)

\* A conversion between float and double.
FConvert(a, p) == FRound(a.neg, a.m, a.e, p)

FNeg(a) == IF a.m = << >> THEN a ELSE [a EXCEPT !.neg = ~a.neg]

\* The position above the top bit of a: a is below 2^FTop(a).
FTop(a) == a.e + BitLen(a.m)

\* a + b in p mantissa bits.  An operand more than p + 2 binary places
\* below the other is less than a quarter of its last place and rounds away.
FAdd(a, b, p) ==
    IF a.m = << >> THEN FConvert(b, p)
    ELSE IF b.m = << >> THEN FConvert(a, p)
    ELSE IF FTop(b) < FTop(a) - p - 2 /\ BitLen(a.m) <= p THEN a
    ELSE IF FTop(a) < FTop(b) - p - 2 /\ BitLen(b.m) <= p THEN b
    ELSE LET e0 == IF a.e < b.e THEN a.e ELSE b.e
             x == BShl(a.m, a.e - e0)
             y == BShl(b.m, b.e - e0)
             c == BCmp(x, y)
         IN IF a.neg = b.neg THEN FRound(a.neg, BAdd(x, y), e0, p)
            ELSE IF c = 0 THEN FZero
            ELSE IF c > 0 THEN FRound(a.neg, BSub(x, y), e0, p)
            ELSE FRound(b.neg, BSub(y, x), e0, p)

FSub(a, b, p) == FAdd(a, FNeg(b), p)

FMul(a, b, p) == FRound(a.neg # b.neg, BMul(a.m, b.m), a.e + b.e, p)

\* a / b in p mantissa bits, b not 0: the quotient of the mantissas to more
\* than p + 2 bits, with one more bit set if the division left a remainder.
\* Mantissas below 2^30 are divided by their common divisor first, which
\* leaves the quotient as it is.
FDiv(a, b, p) ==
    IF a.m = << >> THEN FZero
    ELSE LET small == Len(a.m) <= 2 /\ Len(b.m) <= 2
             g == IF small THEN Gcd(ToNat(a.m), ToNat(b.m)) ELSE 1
             x == IF small THEN FromNat(ToNat(a.m) \div g) ELSE a.m
             y == IF small THEN FromNat(ToNat(b.m) \div g) ELSE b.m
             need == BitLen(y) + p + 2 - BitLen(x)
             s == IF need > 0 THEN need ELSE 0
             d == BDivMod(BShl(x, s), y)
         IN FRound(a.neg # b.neg,
                   BAdd(BShl(d.q, 1), IF d.r = << >> THEN << >> ELSE <<1>>),
                   a.e - b.e - s - 1, p)

\* 1, 0 or -1 as |a| is above, equal to or below |b|.
FCmpAbs(a, b) ==
    IF a.m = << >> THEN (IF b.m = << >> THEN 0 ELSE 0 - 1)
    ELSE IF b.m = << >> THEN 1
    ELSE IF FTop(a) > FTop(b) THEN 1
    ELSE IF FTop(a) < FTop(b) THEN 0 - 1
    ELSE LET e0 == IF a.e < b.e THEN a.e ELSE b.e
         IN BCmp(BShl(a.m, a.e - e0), BShl(b.m, b.e - e0))

\* 1, 0 or -1 as a is above, equal to or below b.
FCmp(a, b) ==
    IF a.neg /\ ~b.neg THEN 0 - 1
    ELSE IF ~a.neg /\ b.neg THEN 1
    ELSE IF a.neg THEN 0 - FCmpAbs(a, b)
    ELSE FCmpAbs(a, b)

\* The cast of a >= 0 to an unsigned integer: the whole part of a, which
\* must be below 2^31.
FTrunc(a) ==
    IF a.m = << >> THEN 0
    ELSE IF a.e >= 0 THEN ToNat(BShl(a.m, a.e))
    ELSE ToNat(BShr(a.m, 0 - a.e))

\* The number of zero bits at the low end of n > 0.
RECURSIVE IntLowZeros(_)
IntLowZeros(n) == IF n % 2 = 1 THEN 0 ELSE 1 + IntLowZeros(n \div 2)

\* The same value with an odd mantissa: one record for each value.
RECURSIVE FCanon(_)
FCanon(a) ==
    IF a.m = << >> THEN FZero
    ELSE IF a.m[1] = 0
    THEN FCanon([a EXCEPT !.m = Tail(a.m), !.e = a.e + LimbBits])
    ELSE [a EXCEPT !.m = BShr(a.m, IntLowZeros(a.m[1])),
                   !.e = a.e + IntLowZeros(a.m[1])]

(***************************************************************************)
(* AlarmManager  (firmware/src/alarm_manager.cpp)                          *)
(***************************************************************************)

\* enum class AlarmType
NONE == 0
PIT_HIGH == 1
PIT_LOW == 2
MEAT1_DONE == 3
MEAT2_DONE == 4

MAX_ACTIVE_ALARMS == 4
ALARM_PIT_BAND_DEFAULT == 15
ALARM_BUZZER_DURATION == 500
ALARM_BUZZER_PAUSE == 500

\* Largest value of millis() the alarm model lets the clock reach.
MaxAlarmNowMs == 500

\* Inputs of the alarm calls.  A pit input is <<pitTemp, setpoint,
\* pitReached>>: around setpoint 250 the temperatures 230 and 270 lie outside
\* the default band (15) and on the edges of the band 20; <<0, 250, TRUE>> is
\* a disconnected pit probe and <<250, 0, TRUE>> a cleared setpoint.
PitInputs ==
    { <<230, 250, TRUE>>, <<250, 250, TRUE>>, <<270, 250, TRUE>>,
      <<0, 250, TRUE>>, <<250, 0, TRUE>>,
      <<270, 250, FALSE>>, <<250, 250, FALSE>> }
Meat1Temps == {190, 200}
Meat2Temps == {0, 200}
Meat1Targets == {0, 200}
Meat2Targets == {0, 200}
PitBands == {0, 20}

\* AlarmManager::AlarmManager().  activeAlarms holds the first activeCount
\* slots of _activeAlarms; the remaining slots are always NONE.
AlarmManagerInit ==
    [ meat1Target |-> 0,
      meat2Target |-> 0,
      pitBand |-> ALARM_PIT_BAND_DEFAULT,
      activeAlarms |-> << >>,
      acknowledged |-> FALSE,
      enabled |-> TRUE,
      buzzerOn |-> FALSE,
      meat1Triggered |-> FALSE,
      meat2Triggered |-> FALSE,
      pitTriggered |-> FALSE,
      lastBuzzerToggleMs |-> 0 ]

activeCount(a) == Len(a.activeAlarms)

isAlarmActive(a, type) ==
    \E i \in 1..activeCount(a) : a.activeAlarms[i] = type

addAlarm(a, type) ==
    IF isAlarmActive(a, type) THEN a
    ELSE IF activeCount(a) >= MAX_ACTIVE_ALARMS THEN a
    ELSE [a EXCEPT !.activeAlarms = Append(@, type), !.acknowledged = FALSE]

\* A removeAlarm that leaves the list alone: a variant of the code that the
\* in-band property (C5) must reject.
removeAlarm_Keeps(a, type) == a

removeAlarm(a, type) ==
    IF ~isAlarmActive(a, type) THEN a
    ELSE LET i == CHOOSE k \in 1..activeCount(a) :
                      /\ a.activeAlarms[k] = type
                      /\ \A j \in 1..(k - 1) : a.activeAlarms[j] # type
         IN [a EXCEPT !.activeAlarms =
                 SubSeq(@, 1, i - 1) \o SubSeq(@, i + 1, Len(@))]

isAlarming(a) == activeCount(a) > 0 /\ ~a.acknowledged

setBuzzer(a, on) == [a EXCEPT !.buzzerOn = on]

\* AlarmManager::updateBuzzer, with now the value of millis().  The timed
\* pattern is compiled out of the native build, which behaves as this does
\* while the clock stands at 0.
updateBuzzer(a, now) ==
    IF ~isAlarming(a) THEN (IF a.buzzerOn THEN setBuzzer(a, FALSE) ELSE a)
    ELSE LET elapsed == now - a.lastBuzzerToggleMs IN
         IF a.buzzerOn
         THEN IF elapsed >= ALARM_BUZZER_DURATION
              THEN [setBuzzer(a, FALSE) EXCEPT !.lastBuzzerToggleMs = now]
              ELSE a
         ELSE IF elapsed >= ALARM_BUZZER_PAUSE
              THEN [setBuzzer(a, TRUE) EXCEPT !.lastBuzzerToggleMs = now]
              ELSE a

\* A pit block that does not wait for pitReached: a variant of the code that
\* the ramp-up property (C4) must reject.
updatePit_IgnoresReached(a, pitTemp, setpoint, pitReached) ==
    IF setpoint > 0 /\ pitTemp > 0
    THEN LET pitOutOfBand == \/ pitTemp > setpoint + a.pitBand
                             \/ pitTemp < setpoint - a.pitBand
         IN IF pitOutOfBand /\ ~a.pitTriggered
            THEN IF pitTemp > setpoint + a.pitBand
                 THEN addAlarm(a, PIT_HIGH)
                 ELSE addAlarm(a, PIT_LOW)
            ELSE IF ~pitOutOfBand
            THEN [removeAlarm(removeAlarm(a, PIT_HIGH), PIT_LOW)
                     EXCEPT !.pitTriggered = FALSE]
            ELSE a
    ELSE a

\* The pit-alarm block of AlarmManager::update.
updatePit(a, pitTemp, setpoint, pitReached) ==
    IF pitReached /\ setpoint > 0 /\ pitTemp > 0
    THEN LET pitOutOfBand == \/ pitTemp > setpoint + a.pitBand
                             \/ pitTemp < setpoint - a.pitBand
         IN IF pitOutOfBand /\ ~a.pitTriggered
            THEN IF pitTemp > setpoint + a.pitBand
                 THEN addAlarm(a, PIT_HIGH)
                 ELSE addAlarm(a, PIT_LOW)
            ELSE IF ~pitOutOfBand
            THEN [removeAlarm(removeAlarm(a, PIT_HIGH), PIT_LOW)
                     EXCEPT !.pitTriggered = FALSE]
            ELSE a
    ELSE a

\* The meat-1 block of AlarmManager::update.
updateMeat1(a, meat1Temp) ==
    IF a.meat1Target > 0 /\ meat1Temp > 0 /\ ~a.meat1Triggered
       /\ meat1Temp >= a.meat1Target
    THEN [addAlarm(a, MEAT1_DONE) EXCEPT !.meat1Triggered = TRUE]
    ELSE a

\* The meat-2 block of AlarmManager::update.
updateMeat2(a, meat2Temp) ==
    IF a.meat2Target > 0 /\ meat2Temp > 0 /\ ~a.meat2Triggered
       /\ meat2Temp >= a.meat2Target
    THEN [addAlarm(a, MEAT2_DONE) EXCEPT !.meat2Triggered = TRUE]
    ELSE a

\* An update that evaluates even when disabled: a variant of the code that the
\* disabled-update property (C7) must reject.
update_IgnoresEnabled(a, pitTemp, meat1Temp, meat2Temp, setpoint, pitReached, now) ==
    updateBuzzer(
        updateMeat2(
            updateMeat1(
                updatePit(a, pitTemp, setpoint, pitReached),
                meat1Temp),
            meat2Temp),
        now)

\* AlarmManager::update
update(a, pitTemp, meat1Temp, meat2Temp, setpoint, pitReached, now) ==
    IF ~a.enabled THEN setBuzzer(a, FALSE)
    ELSE updateBuzzer(
             updateMeat2(
                 updateMeat1(
                     updatePit(a, pitTemp, setpoint, pitReached),
                     meat1Temp),
                 meat2Temp),
             now)

\* An acknowledge that leaves the buzzer as it is: a variant of the code that
\* the acknowledge property (C6) must reject.
acknowledge_KeepsBuzzer(a) ==
    [ a EXCEPT
        !.acknowledged = TRUE,
        !.pitTriggered = @ \/ isAlarmActive(a, PIT_HIGH)
                           \/ isAlarmActive(a, PIT_LOW),
        !.meat1Triggered = @ \/ isAlarmActive(a, MEAT1_DONE),
        !.meat2Triggered = @ \/ isAlarmActive(a, MEAT2_DONE),
        !.activeAlarms = << >> ]

\* An acknowledge that does not latch the pit alarm: a variant of the code that
\* the pit re-trigger property (C3) must reject.
acknowledge_NoPitLatch(a) ==
    [ setBuzzer(a, FALSE) EXCEPT
        !.acknowledged = TRUE,
        !.meat1Triggered = @ \/ isAlarmActive(a, MEAT1_DONE),
        !.meat2Triggered = @ \/ isAlarmActive(a, MEAT2_DONE),
        !.activeAlarms = << >> ]

\* An acknowledge that latches every alarm kind, active or not: a variant of
\* the code that the selective-acknowledge property (C39) must reject.
acknowledge_LatchesAll(a) ==
    [ setBuzzer(a, FALSE) EXCEPT
        !.acknowledged = TRUE,
        !.pitTriggered = TRUE,
        !.meat1Triggered = TRUE,
        !.meat2Triggered = TRUE,
        !.activeAlarms = << >> ]

\* AlarmManager::acknowledge
acknowledge(a) ==
    [ setBuzzer(a, FALSE) EXCEPT
        !.acknowledged = TRUE,
        !.pitTriggered = @ \/ isAlarmActive(a, PIT_HIGH)
                           \/ isAlarmActive(a, PIT_LOW),
        !.meat1Triggered = @ \/ isAlarmActive(a, MEAT1_DONE),
        !.meat2Triggered = @ \/ isAlarmActive(a, MEAT2_DONE),
        !.activeAlarms = << >> ]

\* A setMeat1Target that keeps the trigger latch: a variant of the code that
\* the meat re-arm property (C2) must reject.
setMeat1Target_KeepsLatch(a, target) ==
    [a EXCEPT !.meat1Target = target]

setMeat1Target(a, target) ==
    [a EXCEPT !.meat1Target = target, !.meat1Triggered = FALSE]

setMeat2Target(a, target) ==
    [a EXCEPT !.meat2Target = target, !.meat2Triggered = FALSE]

setPitBand(a, band) ==
    IF band > 0 THEN [a EXCEPT !.pitBand = band] ELSE a

setEnabled(a, enabled) ==
    IF ~enabled THEN setBuzzer([a EXCEPT !.enabled = enabled], FALSE)
    ELSE [a EXCEPT !.enabled = enabled]

(***************************************************************************)
(* FanController  (fan_controller.cpp)                                     *)
(***************************************************************************)

FAN_KICKSTART_PCT == 75
FAN_KICKSTART_MS == 500
FAN_MIN_SPEED == 15
FAN_LONGPULSE_THRESHOLD == 10
\* The long-pulse period comes from config.h, which is not among the sources;
\* the design calls it longPulseCycleMs.  Ten seconds is taken here.
FAN_LONGPULSE_CYCLE_MS == 10000

\* currentPct is kept in units of 1/255 percent, so that the percentage
\* setManualDuty derives from a duty byte (duty / 255 * 100) is an integer.
PctUnit == 255

\* Largest value of millis() the fan model lets the clock reach.
MaxFanNowMs == 1500

\* Inputs of the fan calls: setSpeed percentages (1 and 5 are long-pulse
\* targets whose on-times are 1000 ms and 5000 ms, 12 lies between the
\* long-pulse threshold and the minimum speed), setManualDuty bytes, and the
\* time that passes before an update().
SpeedInputs == {0 - 10, 0, 1, 5, 12, 50, 150}
DutyInputs == {0, 200, 255}
FanSteps == {0, FAN_KICKSTART_MS}

\* FanController::FanController() followed by begin()
FanControllerInit ==
    [ targetPct |-> 0,
      currentPct |-> 0,
      currentDuty |-> 0,
      kickStartActive |-> FALSE,
      kickStartEndMs |-> 0,
      kickStartTargetPct |-> 0,
      longPulseActive |-> FALSE,
      longPulseCycleStartMs |-> 0,
      wasOff |-> TRUE,
      manualMode |-> FALSE ]

\* FanController::percentToDuty, for a whole-number percentage:
\* (uint8_t)(pct * 255 / 100 + 0.5)
percentToDuty(pct) ==
    IF pct <= 0 THEN 0
    ELSE IF pct >= 100 THEN 255
    ELSE (pct * 510 + 100) \div 200

\* A setSpeed that stores the target even under manual override: a variant of
\* the code that the override property (C13) must reject.
setSpeed_IgnoresManual(f, percent) ==
    LET lo == IF percent < 0 THEN 0 ELSE percent
        hi == IF lo > 100 THEN 100 ELSE lo
    IN [f EXCEPT !.targetPct = hi]

\* FanController::setSpeed
setSpeed(f, percent) ==
    IF f.manualMode THEN f
    ELSE LET lo == IF percent < 0 THEN 0 ELSE percent
             hi == IF lo > 100 THEN 100 ELSE lo
         IN [f EXCEPT !.targetPct = hi]

\* The kick-start phase of FanController::update while the deadline is ahead.
fanKickHold(f) ==
    [f EXCEPT !.currentPct = FAN_KICKSTART_PCT * PctUnit,
              !.currentDuty = percentToDuty(FAN_KICKSTART_PCT)]

\* The "Off" block of FanController::update.
fanUpdateOff(f) ==
    [f EXCEPT !.wasOff = TRUE,
              !.longPulseActive = FALSE,
              !.currentPct = 0,
              !.currentDuty = 0]

\* The kick-start entry block of FanController::update.
fanKickEnter(f, now) ==
    [f EXCEPT !.wasOff = FALSE,
              !.kickStartActive = TRUE,
              !.kickStartEndMs = now + FAN_KICKSTART_MS,
              !.kickStartTargetPct = f.targetPct,
              !.currentPct = FAN_KICKSTART_PCT * PctUnit,
              !.currentDuty = percentToDuty(FAN_KICKSTART_PCT)]

\* The on-time of a long-pulse cycle, as the long-pulse block computes it:
\* (unsigned long)(effectivePct / FAN_LONGPULSE_THRESHOLD * cycleMs)
longPulseOnTimeMs(effectivePct) ==
    (effectivePct * FAN_LONGPULSE_CYCLE_MS) \div FAN_LONGPULSE_THRESHOLD

\* A long-pulse block that starts a new cycle at every update(): a variant of
\* the code that the anchoring property (C34) must reject.
fanLongPulse_AnchorsEveryUpdate(f, now) ==
    LET g == [f EXCEPT !.longPulseActive = TRUE,
                       !.longPulseCycleStartMs = now]
        elapsed == now - g.longPulseCycleStartMs
        posInCycle == elapsed % FAN_LONGPULSE_CYCLE_MS
        onTimeMs == longPulseOnTimeMs(g.targetPct)
    IN IF posInCycle < onTimeMs
       THEN [g EXCEPT !.currentPct = FAN_MIN_SPEED * PctUnit,
                      !.currentDuty = percentToDuty(FAN_MIN_SPEED)]
       ELSE [g EXCEPT !.currentPct = 0, !.currentDuty = 0]

\* A long-pulse block that runs the on-slice at the target's own duty, not at
\* the minimum speed: a variant of the code that the long-pulse output
\* property (C35) must reject.
fanLongPulse_RunsAtTarget(f, now) ==
    LET g == IF ~f.longPulseActive
             THEN [f EXCEPT !.longPulseActive = TRUE,
                            !.longPulseCycleStartMs = now]
             ELSE f
        elapsed == now - g.longPulseCycleStartMs
        posInCycle == elapsed % FAN_LONGPULSE_CYCLE_MS
        onTimeMs == longPulseOnTimeMs(g.targetPct)
    IN IF posInCycle < onTimeMs
       THEN [g EXCEPT !.currentPct = g.targetPct * PctUnit,
                      !.currentDuty = percentToDuty(g.targetPct)]
       ELSE [g EXCEPT !.currentPct = 0, !.currentDuty = 0]

\* The long-pulse block of FanController::update.
fanLongPulse(f, now) ==
    LET g == IF ~f.longPulseActive
             THEN [f EXCEPT !.longPulseActive = TRUE,
                            !.longPulseCycleStartMs = now]
             ELSE f
        elapsed == now - g.longPulseCycleStartMs
        posInCycle == elapsed % FAN_LONGPULSE_CYCLE_MS
        onTimeMs == longPulseOnTimeMs(g.targetPct)
    IN IF posInCycle < onTimeMs
       THEN [g EXCEPT !.currentPct = FAN_MIN_SPEED * PctUnit,
                      !.currentDuty = percentToDuty(FAN_MIN_SPEED)]
       ELSE [g EXCEPT !.currentPct = 0, !.currentDuty = 0]

\* A normal-speed block without the minimum-speed clamp: a variant of the code
\* that the minimum-speed property (C12) must reject.
fanNormal_NoClamp(f) ==
    [f EXCEPT !.longPulseActive = FALSE,
              !.currentPct = f.targetPct * PctUnit,
              !.currentDuty = percentToDuty(f.targetPct)]

\* The normal-speed block of FanController::update.
fanNormal(f) ==
    LET effectivePct == IF f.targetPct > 0 /\ f.targetPct < FAN_MIN_SPEED
                        THEN FAN_MIN_SPEED ELSE f.targetPct
    IN [f EXCEPT !.longPulseActive = FALSE,
                 !.currentPct = effectivePct * PctUnit,
                 !.currentDuty = percentToDuty(effectivePct)]

\* An update that kick-starts on every non-zero target, whether or not the fan
\* was off: a variant of the code that the kick-start property (C11) must
\* reject.
fanUpdate_KicksWhenRunning(f, now) ==
    IF f.manualMode THEN f
    ELSE IF f.kickStartActive /\ now < f.kickStartEndMs THEN fanKickHold(f)
    ELSE LET g == [f EXCEPT !.kickStartActive = FALSE] IN
         IF g.targetPct <= 0 THEN fanUpdateOff(g)
         ELSE fanKickEnter(g, now)

\* An update that still holds the kick-start at the deadline itself (now =
\* kickStartEndMs): a variant of the code that the kick-start exit property
\* (C33) must reject.
fanUpdate_HoldsAtDeadline(f, now) ==
    IF f.manualMode THEN f
    ELSE IF f.kickStartActive /\ now <= f.kickStartEndMs THEN fanKickHold(f)
    ELSE LET g == [f EXCEPT !.kickStartActive = FALSE] IN
         IF g.targetPct <= 0 THEN fanUpdateOff(g)
         ELSE IF g.wasOff THEN fanKickEnter(g, now)
         ELSE LET h == [g EXCEPT !.wasOff = FALSE] IN
              IF h.targetPct < FAN_LONGPULSE_THRESHOLD
              THEN fanLongPulse(h, now)
              ELSE fanNormal(h)

\* FanController::update, with now the value of millis()
fanUpdate(f, now) ==
    IF f.manualMode THEN f
    ELSE IF f.kickStartActive /\ now < f.kickStartEndMs THEN fanKickHold(f)
    ELSE LET g == [f EXCEPT !.kickStartActive = FALSE] IN
         IF g.targetPct <= 0 THEN fanUpdateOff(g)
         ELSE IF g.wasOff THEN fanKickEnter(g, now)
         ELSE LET h == [g EXCEPT !.wasOff = FALSE] IN
              IF h.targetPct < FAN_LONGPULSE_THRESHOLD
              THEN fanLongPulse(h, now)
              ELSE fanNormal(h)

\* An off() that does not mark the fan as having been off: a variant of the
\* code that the restart property (C9) must reject.
fanOff_KeepsWasOff(f) ==
    [f EXCEPT !.targetPct = 0,
              !.kickStartActive = FALSE,
              !.longPulseActive = FALSE,
              !.manualMode = FALSE,
              !.currentPct = 0,
              !.currentDuty = 0]

\* FanController::off
fanOff(f) ==
    [f EXCEPT !.targetPct = 0,
              !.kickStartActive = FALSE,
              !.longPulseActive = FALSE,
              !.manualMode = FALSE,
              !.wasOff = TRUE,
              !.currentPct = 0,
              !.currentDuty = 0]

\* FanController::setManualDuty
setManualDuty(f, duty) ==
    [f EXCEPT !.manualMode = TRUE,
              !.currentDuty = duty,
              !.currentPct = duty * 100]

getCurrentSpeedPct(f) == f.currentPct
getCurrentDuty(f) == f.currentDuty
isKickStarting(f) == f.kickStartActive

\* The state of the fan machine of the design (section "Fan Actuator").
FanMode(f) ==
    IF f.manualMode THEN "manual"
    ELSE IF f.kickStartActive THEN "kickstart"
    ELSE IF f.longPulseActive THEN "longpulse"
    ELSE IF f.wasOff THEN "off"
    ELSE "normal"

(***************************************************************************)
(* ServoController  (servo_controller.cpp)                                 *)
(***************************************************************************)

\* The damper travels between these two servo angles, in degrees.
DAMPER_CLOSED == 0
DAMPER_OPEN == 90

\* The largest angle the servo takes, in degrees.
SERVO_MAX_ANGLE == 180

\* getCurrentPositionPct is given in units of 1/(DAMPER_OPEN - DAMPER_CLOSED)
\* percent, in which the quotient it computes is an integer.
ServoPctUnit == DAMPER_OPEN - DAMPER_CLOSED

\* Inputs of the servo calls: setPosition percentages and setAngle bytes.
PositionInputs == {0 - 10, 50, 65, 150}
AngleInputs == {0, 180, 255}

\* ServoController::ServoController.  _attached records only whether the
\* hardware servo object is attached (device build); it feeds no value an
\* accessor returns and is left out.
ServoControllerInit == [ currentAngle |-> DAMPER_CLOSED ]

\* 0.5f
FHalf == [ neg |-> FALSE, m |-> <<1>>, e |-> 0 - 1 ]

\* The angle ServoController::setPosition stores for a whole-number
\* percentage; it is computed in float, as the code computes it:
\* 65 / 100.0f * 90 is 58.499996, which the cast of angle + 0.5f takes to 58.
positionAngle(percent) ==
    LET hundred == FFromInt(100, FloatBits)
        closed == FFromInt(DAMPER_CLOSED, FloatBits)
        open == FFromInt(DAMPER_OPEN, FloatBits)
        lo == IF percent < 0 THEN FZero ELSE FFromInt(percent, FloatBits)
        pct == IF FCmp(lo, hundred) > 0 THEN hundred ELSE lo
        angle == FAdd(closed,
                      FMul(FDiv(pct, hundred, FloatBits),
                           FFromInt(DAMPER_OPEN - DAMPER_CLOSED, FloatBits),
                           FloatBits),
                      FloatBits)
        clampLo == IF FCmp(angle, closed) < 0 THEN closed ELSE angle
        clamped == IF FCmp(clampLo, open) > 0 THEN open ELSE clampLo
    IN FTrunc(FAdd(clamped, FHalf, FloatBits))

\* positionAngle of the percentages the model passes, computed once.
PositionAngles == [percent \in PositionInputs |-> positionAngle(percent)]

\* ServoController::setPosition
setPosition(sv, percent) ==
    [sv EXCEPT !.currentAngle = IF percent \in PositionInputs
                                THEN PositionAngles[percent]
                                ELSE positionAngle(percent)]

\* ServoController::setAngle
setAngle(sv, angleDeg) ==
    [sv EXCEPT !.currentAngle = IF angleDeg > SERVO_MAX_ANGLE
                                THEN SERVO_MAX_ANGLE ELSE angleDeg]

getCurrentAngle(sv) == sv.currentAngle

\* A getCurrentPositionPct without its final clamp: a variant of the code that
\* the range property (C14) must reject.
getCurrentPositionPct_NoClamp(sv) ==
    IF DAMPER_OPEN = DAMPER_CLOSED THEN 0
    ELSE (sv.currentAngle - DAMPER_CLOSED) * 100

\* ServoController::getCurrentPositionPct, in units of 1/ServoPctUnit percent.
getCurrentPositionPct(sv) ==
    IF DAMPER_OPEN = DAMPER_CLOSED THEN 0
    ELSE LET pct == (sv.currentAngle - DAMPER_CLOSED) * 100
         IN IF pct < 0 THEN 0
            ELSE IF pct > 100 * ServoPctUnit THEN 100 * ServoPctUnit
            ELSE pct

(***************************************************************************)
(* PidController  (pid_controller.cpp is not among the sources; modelled   *)
(* from the design, section "PID Regulator + Lid-Open Detector", and from  *)
(* the calls test_pid.cpp makes)                                           *)
(***************************************************************************)

\* Lid-open thresholds, in percent of the setpoint.
LID_OPEN_DROP_PCT == 6
LID_OPEN_RECOVER_PCT == 2

\* Inputs of compute(): pit temperatures around the two thresholds of a 250
\* degree setpoint (235 and 245) and of a 400 degree one (376 and 392),
\* setpoints, and the value the regulator
\* arithmetic (gains, integral, derivative) arrives at, which the model does
\* not compute and lets range over 0..100.
PidTemps == {0 - 50, 0, 230, 235, 240, 245, 250, 376, 392}
PidSetpoints == {0, 250, 400}
RawOutputs == {0, 40, 100}

\* PidController after construction and begin(): enabled, lid closed,
\* output 0.
PidControllerInit == [ enabled |-> TRUE, lidOpen |-> FALSE, output |-> 0 ]

\* pitTemp < setpoint * (1 - LID_OPEN_DROP_PCT / 100)
BelowDropThreshold(pitTemp, setpoint) ==
    pitTemp * 100 < setpoint * (100 - LID_OPEN_DROP_PCT)

\* pitTemp >= setpoint * (1 - LID_OPEN_RECOVER_PCT / 100)
AtOrAboveRecoverThreshold(pitTemp, setpoint) ==
    pitTemp * 100 >= setpoint * (100 - LID_OPEN_RECOVER_PCT)

\* A lid machine without hysteresis, open exactly below the drop threshold:
\* a variant that the hysteresis property (C16) must reject.
updateLidState_NoHysteresis(p, pitTemp, setpoint) ==
    [p EXCEPT !.lidOpen = setpoint > 0 /\ BelowDropThreshold(pitTemp, setpoint)]

\* The lid-open state machine:
\*   Closed -> Open when setpoint > 0 and pitTemp below the drop threshold,
\*   Open -> Closed when pitTemp at or above the recover threshold.
updateLidState(p, pitTemp, setpoint) ==
    IF ~p.lidOpen
    THEN IF setpoint > 0 /\ BelowDropThreshold(pitTemp, setpoint)
         THEN [p EXCEPT !.lidOpen = TRUE]
         ELSE p
    ELSE IF AtOrAboveRecoverThreshold(pitTemp, setpoint)
         THEN [p EXCEPT !.lidOpen = FALSE]
         ELSE p

\* A compute that lets the regulator's value through while the lid is open:
\* a variant that the lid-open output property (C15) must reject.
compute_IgnoresLid(p, pitTemp, setpoint, raw) ==
    LET q == updateLidState(p, pitTemp, setpoint)
    IN IF ~q.enabled THEN [q EXCEPT !.output = 0]
       ELSE [q EXCEPT !.output = raw]

\* PidController::compute, with raw the value of the regulator arithmetic:
\* the lid machine runs, and the output is 0 when disabled or lid-open.
compute(p, pitTemp, setpoint, raw) ==
    LET q == updateLidState(p, pitTemp, setpoint)
    IN IF ~q.enabled THEN [q EXCEPT !.output = 0]
       ELSE IF q.lidOpen THEN [q EXCEPT !.output = 0]
       ELSE [q EXCEPT !.output = raw]

\* The value compute returns: the output it has just stored.
computeResult(p, pitTemp, setpoint, raw) ==
    compute(p, pitTemp, setpoint, raw).output

\* PidController::setEnabled: disabling sets output = 0 and clears lid-open.
pidSetEnabled(p, enabled) ==
    IF ~enabled
    THEN [p EXCEPT !.enabled = FALSE, !.output = 0, !.lidOpen = FALSE]
    ELSE [p EXCEPT !.enabled = TRUE]

\* PidController::begin: back to the state after construction.
pidBegin(p) == PidControllerInit

getOutput(p) == p.output
isLidOpen(p) == p.lidOpen
isEnabled(p) == p.enabled

(***************************************************************************)
(* CookSession  (cook_session.cpp, device build)                           *)
(***************************************************************************)

\* Slots of the ring.  The firmware takes the number from config.h; the model
\* runs with a ring small enough to fill and wrap several times.
SESSION_BUFFER_SIZE == 3

\* A DataPoint is modelled by its timestamp, a whole number >= 1 that no two
\* recorded points share.  A zeroed slot (memset) is 0, the null pointer
\* getPoint returns is NullPoint, and a DataPoint read from the file astride
\* two stored points a and b is Garbled(a, b).
EmptySlot == 0
NullPoint == 0 - 1
GarbleBase == 100
Garbled(a, b) == 0 - (a * GarbleBase + b)

\* The timestamp field, the first four bytes of a DataPoint.
TimestampOf(point) == point

Min(a, b) == IF a < b THEN a ELSE b

\* CookSession::CookSession.  The sampling timers and the data-source
\* callbacks serve update() only, which the model replaces by the addPoint()
\* and flush() calls it makes; they are left out.
CookSessionInit ==
    [ buffer |-> [i \in 0..(SESSION_BUFFER_SIZE - 1) |-> EmptySlot],
      head |-> 0,
      count |-> 0,
      wrapped |-> FALSE,
      active |-> FALSE,
      startTime |-> 0,
      totalPoints |-> 0,
      flushedToIndex |-> 0 ]

\* The session file: absent, or a header of zero or one start time (four
\* bytes) followed by whole DataPoints.
NoFile == [ exists |-> FALSE, header |-> << >>, points |-> << >> ]

\* CookSession::addPoint
addPoint(s, point) ==
    [s EXCEPT !.buffer = [@ EXCEPT ![s.head] = point],
              !.head = (s.head + 1) % SESSION_BUFFER_SIZE,
              !.count = IF s.count < SESSION_BUFFER_SIZE THEN s.count + 1
                        ELSE s.count,
              !.wrapped = IF s.count < SESSION_BUFFER_SIZE THEN s.wrapped
                          ELSE TRUE,
              !.totalPoints = s.totalPoints + 1]

\* A getPoint that always reads from slot 0 on, wrapped or not: a variant of
\* the code that the ring-order property (C18) must reject.
getPoint_IgnoresWrap(s, index) ==
    IF index >= s.count THEN NullPoint ELSE s.buffer[index]

\* CookSession::getPoint
getPoint(s, index) ==
    IF index >= s.count THEN NullPoint
    ELSE IF s.wrapped
         THEN s.buffer[(s.head + index) % SESSION_BUFFER_SIZE]
         ELSE s.buffer[index]

getPointCount(s) == s.count
getTotalPointCount(s) == s.totalPoints
isActive(s) == s.active
getStartTime(s) == s.startTime

\* The points getPoint exposes, oldest first.
ExposedPoints(s) == [i \in 1..getPointCount(s) |-> getPoint(s, i - 1)]

\* The writing part of CookSession::flush, on the opened file f: the most
\* recent pointsToFlush entries of the ring are appended.
flushWrite(s, f) ==
    LET pending == s.totalPoints - s.flushedToIndex
        pointsToFlush == IF pending > s.count THEN s.count ELSE pending
        flushStart == IF s.head >= pointsToFlush
                      THEN s.head - pointsToFlush
                      ELSE SESSION_BUFFER_SIZE - (pointsToFlush - s.head)
        written == [i \in 1..pointsToFlush |->
                       s.buffer[(flushStart + i - 1) % SESSION_BUFFER_SIZE]]
    IN IF pointsToFlush > 0
       THEN [ s |-> [s EXCEPT !.flushedToIndex = s.totalPoints],
              f |-> [f EXCEPT !.points = @ \o written] ]
       ELSE [ s |-> s, f |-> f ]

\* How CookSession::flush gets at the file: "none" when it returns before any
\* open (empty ring), "append" when open "a" hands back the existing file,
\* "created" when open "a" hands back a file that was missing (made empty, so
\* no header is written), "rewritten" when open "a" fails and open "w"
\* succeeds (header written first), "failed" when both fail.
flushOpen(s, f, openA, openW) ==
    IF s.count = 0 THEN "none"
    ELSE IF openA THEN (IF f.exists THEN "append" ELSE "created")
    ELSE IF openW THEN "rewritten"
    ELSE "failed"

\* The number of points a flush that gets at the file writes.
pointsToFlush(s) ==
    Min(s.totalPoints - s.flushedToIndex, s.count)

\* A flush that takes the points for written although no file was opened: a
\* variant of the code that the retry property (C23) must reject.
flush_MarksOnFailure(s, f, openA, openW) ==
    IF s.count = 0 THEN [ s |-> s, f |-> f ]
    ELSE IF openA
    THEN flushWrite(s, IF f.exists THEN f
                       ELSE [ exists |-> TRUE, header |-> << >>,
                              points |-> << >> ])
    ELSE IF openW
    THEN flushWrite(s, [ exists |-> TRUE, header |-> << s.startTime >>,
                         points |-> << >> ])
    ELSE [ s |-> [s EXCEPT !.flushedToIndex = s.totalPoints], f |-> f ]

\* CookSession::flush.  openA and openW say whether LittleFS.open(path, "a")
\* and LittleFS.open(path, "w") hand back a file; an "a" that succeeds on a
\* missing file has created it empty, a "w" truncates.
flush(s, f, openA, openW) ==
    IF s.count = 0 THEN [ s |-> s, f |-> f ]
    ELSE IF openA
    THEN flushWrite(s, IF f.exists THEN f
                       ELSE [ exists |-> TRUE, header |-> << >>,
                              points |-> << >> ])
    ELSE IF openW
    THEN flushWrite(s, [ exists |-> TRUE, header |-> << s.startTime >>,
                         points |-> << >> ])
    ELSE [ s |-> s, f |-> f ]

\* The DataPoints loadFromFlash finds behind the first four bytes of the
\* file: the stored points when the file starts with a header; without one,
\* the reads lie astride the stored points and one fewer fits.
StoredPoints(f) ==
    IF f.header # << >> THEN f.points
    ELSE [i \in 1..(Len(f.points) - 1) |->
              Garbled(f.points[i], f.points[i + 1])]

\* The first four bytes of a file that holds at least four.
StoredStartTime(f) ==
    IF f.header # << >> THEN f.header[1] ELSE TimestampOf(f.points[1])

\* A loadFromFlash that loads the oldest stored points instead of skipping
\* them: a variant of the code that the recovery property (C19) must reject.
loadFromFlash_NoSkip(s, f) ==
    IF ~f.exists THEN [ ok |-> FALSE, s |-> s ]
    ELSE IF f.header = << >> /\ f.points = << >>
    THEN [ ok |-> FALSE, s |-> s ]
    ELSE LET s1 == [s EXCEPT !.startTime = StoredStartTime(f)]
             stored == StoredPoints(f)
             numPoints == Min(Len(stored), SESSION_BUFFER_SIZE)
         IN IF Len(stored) = 0 THEN [ ok |-> FALSE, s |-> s1 ]
            ELSE [ ok |-> TRUE,
                   s |-> [s1 EXCEPT
                       !.buffer = [i \in 0..(SESSION_BUFFER_SIZE - 1) |->
                                       IF i < numPoints THEN stored[i + 1]
                                       ELSE s.buffer[i]],
                       !.head = numPoints % SESSION_BUFFER_SIZE,
                       !.count = numPoints,
                       !.wrapped = FALSE,
                       !.totalPoints = numPoints,
                       !.flushedToIndex = numPoints] ]

\* CookSession::loadFromFlash: the record after the call and what it returns.
loadFromFlash(s, f) ==
    IF ~f.exists THEN [ ok |-> FALSE, s |-> s ]
    ELSE IF f.header = << >> /\ f.points = << >>
    THEN [ ok |-> FALSE, s |-> s ]
    ELSE LET s1 == [s EXCEPT !.startTime = StoredStartTime(f)]
             stored == StoredPoints(f)
             numPoints == Min(Len(stored), SESSION_BUFFER_SIZE)
             skip == Len(stored) - numPoints
         IN IF Len(stored) = 0 THEN [ ok |-> FALSE, s |-> s1 ]
            ELSE [ ok |-> TRUE,
                   s |-> [s1 EXCEPT
                       !.buffer = [i \in 0..(SESSION_BUFFER_SIZE - 1) |->
                                       IF i < numPoints
                                       THEN stored[skip + i + 1]
                                       ELSE s.buffer[i]],
                       !.head = numPoints % SESSION_BUFFER_SIZE,
                       !.count = numPoints,
                       !.wrapped = FALSE,
                       !.totalPoints = numPoints,
                       !.flushedToIndex = numPoints] ]

\* CookSession::begin
sessBegin(s, f) ==
    LET r == loadFromFlash(s, f)
    IN IF r.ok THEN [r.s EXCEPT !.active = TRUE] ELSE r.s

\* A clear that keeps the ring indices: a variant of the code that the ring
\* bounds property (C17) must reject.
clear_KeepsCount(s) ==
    [s EXCEPT !.head = 0, !.wrapped = FALSE, !.totalPoints = 0,
              !.flushedToIndex = 0, !.startTime = 0, !.active = FALSE,
              !.buffer = [i \in 0..(SESSION_BUFFER_SIZE - 1) |-> EmptySlot]]

\* CookSession::clear, the object's part; the file is removed with it.
clear(s) == CookSessionInit

\* A startSession that keeps the ring: a variant of the code that the
\* fresh-start property (C25) must reject.
startSession_KeepsRing(s, epoch) ==
    [s EXCEPT !.active = TRUE, !.startTime = epoch]

\* CookSession::startSession, with epoch the wall-clock time.
startSession(s, epoch) ==
    [clear(s) EXCEPT !.active = TRUE, !.startTime = epoch]

\* CookSession::endSession
endSession(s, f, openA, openW) ==
    IF s.active
    THEN LET r == flush(s, f, openA, openW)
         IN [ s |-> [r.s EXCEPT !.active = FALSE], f |-> r.f ]
    ELSE [ s |-> s, f |-> f ]

(***************************************************************************)
(* ErrorManager  (error_manager.cpp)                                       *)
(***************************************************************************)

\* enum class ErrorCode
PROBE_OPEN == 1
PROBE_SHORT == 2
FIRE_OUT == 3
FAN_STALL == 4
WIFI_LOST == 5

\* probeIndex of the errors that belong to no probe (0xFF).
NO_PROBE == 255

MAX_ERRORS == 8
NUM_PROBES == 3

\* The fire-out detector: the sample gate and the fan percentage that counts
\* as saturated are literals of update(); the decline rate is the default the
\* specification names (config.h).
FIREOUT_SAMPLE_MS == 60000
FIREOUT_FAN_PCT == 95
ERROR_FIREOUT_RATE == 5

\* Slots of the pit history (ten in the firmware).  update() only asks
\* whether the history holds two samples; the model runs with a history
\* that is full sooner.
PIT_HISTORY_SIZE == 3

\* The time a decline has to last.  The firmware takes it from config.h
\* (default ten minutes); the model runs with two sample periods.
ERROR_FIREOUT_DURATION_MS == 120000

\* ErrorManager::ErrorManager.  _errors and _errorCount are the sequence
\* errors; an entry is its code and probe index (the message is fixed by
\* them).  The pit history ring is written and never read: only its count is
\* kept.  Temperatures are whole degrees.
ErrorManagerInit ==
    [ errors |-> << >>,
      pitHistoryCount |-> 0,
      lastPitSampleMs |-> 0,
      declineStartMs |-> 0,
      declining |-> FALSE,
      lastPitTemp |-> 0,
      wifiConnected |-> TRUE ]

\* ErrorManager::errorExists
errorExists(e, code, probeIndex) ==
    \E i \in 1..Len(e.errors) :
        e.errors[i].code = code /\ e.errors[i].probeIndex = probeIndex

\* An addError that appends without looking for the entry: a variant of the
\* code that the list property (C27) must reject.
addError_NoDuplicateCheck(e, code, probeIndex) ==
    IF Len(e.errors) >= MAX_ERRORS THEN e
    ELSE [e EXCEPT !.errors =
              Append(@, [ code |-> code, probeIndex |-> probeIndex ])]

\* ErrorManager::addError
addError(e, code, probeIndex) ==
    IF errorExists(e, code, probeIndex) THEN e
    ELSE IF Len(e.errors) >= MAX_ERRORS THEN e
    ELSE [e EXCEPT !.errors =
              Append(@, [ code |-> code, probeIndex |-> probeIndex ])]

\* addError finds the list full and drops the error.
addErrorDrops(e, code, probeIndex) ==
    ~errorExists(e, code, probeIndex) /\ Len(e.errors) >= MAX_ERRORS

\* A removeError that matches on the code alone: a variant of the code that
\* the mirror property (C26) must reject.
removeError_IgnoresIndex(e, code, probeIndex) ==
    [e EXCEPT !.errors = SelectSeq(@, LAMBDA x : x.code # code)]

\* ErrorManager::removeError
removeError(e, code, probeIndex) ==
    [e EXCEPT !.errors =
        SelectSeq(@, LAMBDA x :
            ~(/\ x.code = code
              /\ probeIndex # NO_PROBE => x.probeIndex = probeIndex))]

\* ErrorManager::hasError
hasError(e, code) == \E i \in 1..Len(e.errors) : e.errors[i].code = code

\* ErrorManager::isFireOut
isFireOut(e) == hasError(e, FIRE_OUT)

\* ErrorManager::getErrorCount
getErrorCount(e) == Len(e.errors)

\* ErrorManager::clearAll
clearAll(e) ==
    [e EXCEPT !.errors = << >>, !.declining = FALSE, !.declineStartMs = 0]

\* ErrorManager::setWifiConnected
setWifiConnected(e, connected) == [e EXCEPT !.wifiConnected = connected]

\* ErrorManager::update, the body of the probe loop for probe i.
updateProbe(e, i, st) ==
    IF st.openCircuit
    THEN removeError(addError(e, PROBE_OPEN, i), PROBE_SHORT, i)
    ELSE IF st.shortCircuit
    THEN removeError(addError(e, PROBE_SHORT, i), PROBE_OPEN, i)
    ELSE removeError(removeError(e, PROBE_OPEN, i), PROBE_SHORT, i)

\* ErrorManager::update, the probe loop; probeStates is indexed from 1.
updateProbes(e, probeStates) ==
    updateProbe(updateProbe(updateProbe(e, 0, probeStates[1]),
                            1, probeStates[2]),
                2, probeStates[3])

\* The sample gate of the fire-out detector.
isFireOutSample(e, now) ==
    now - e.lastPitSampleMs >= FIREOUT_SAMPLE_MS \/ e.lastPitSampleMs = 0

\* The pit fell by the fire-out rate since the previous sample while the fan
\* was saturated.
DeclineCondition(lastPitTemp, pitTemp, fanPct) ==
    lastPitTemp - pitTemp >= ERROR_FIREOUT_RATE /\ fanPct >= FIREOUT_FAN_PCT

\* This update() is a fire-out sample with a pit reading above zero and a
\* previous such sample to compare it with: the decline is evaluated.
EvaluatesDecline(e, now, pitTemp) ==
    /\ isFireOutSample(e, now)
    /\ pitTemp > 0
    /\ e.pitHistoryCount >= 1
    /\ e.lastPitTemp > 0

\* The record once the decline condition has held at a sample.
declineHolds(e, now) ==
    LET e1 == IF ~e.declining
              THEN [e EXCEPT !.declining = TRUE, !.declineStartMs = now]
              ELSE e
    IN IF now - e1.declineStartMs >= ERROR_FIREOUT_DURATION_MS
       THEN addError(e1, FIRE_OUT, NO_PROBE)
       ELSE e1

\* A fire-out branch that keeps the anchor when the condition fails: a
\* variant of the code that the sustained-decline property (C28) must reject.
declineFails_KeepsAnchor(e) == removeError(e, FIRE_OUT, NO_PROBE)

\* A fire-out branch that keeps the error when the condition fails: a
\* variant of the code that the reset property (C29) must reject.
declineFails_KeepsFireOut(e) ==
    [e EXCEPT !.declining = FALSE, !.declineStartMs = 0]

\* The record once the decline condition has failed at a sample.
declineFails(e) ==
    removeError([e EXCEPT !.declining = FALSE, !.declineStartMs = 0],
                FIRE_OUT, NO_PROBE)

\* ErrorManager::update, the fire-out detection.
updateFireOut(e, now, pitTemp, fanPct) ==
    IF ~isFireOutSample(e, now) THEN e
    ELSE LET e1 == [e EXCEPT !.lastPitSampleMs = now]
         IN IF pitTemp <= 0 THEN e1
            ELSE LET e2 == [e1 EXCEPT !.pitHistoryCount =
                                IF @ < PIT_HISTORY_SIZE THEN @ + 1 ELSE @]
                     e3 == IF e2.pitHistoryCount >= 2 /\ e2.lastPitTemp > 0
                           THEN IF DeclineCondition(e2.lastPitTemp, pitTemp,
                                                    fanPct)
                                THEN declineHolds(e2, now)
                                ELSE declineFails(e2)
                           ELSE e2
                 IN [e3 EXCEPT !.lastPitTemp = pitTemp]

\* ErrorManager::update, the WiFi part.
updateWifi(e) ==
    IF ~e.wifiConnected THEN addError(e, WIFI_LOST, NO_PROBE)
    ELSE removeError(e, WIFI_LOST, NO_PROBE)

\* ErrorManager::update
errUpdate(e, now, pitTemp, fanPct, probeStates) ==
    updateWifi(updateFireOut(updateProbes(e, probeStates),
                             now, pitTemp, fanPct))

\* Some addError call of this update() finds the list full.
updateDrops(e, now, pitTemp, fanPct, probeStates) ==
    LET p0 == e
        p1 == updateProbe(p0, 0, probeStates[1])
        p2 == updateProbe(p1, 1, probeStates[2])
        p3 == updateProbe(p2, 2, probeStates[3])
        f == updateFireOut(p3, now, pitTemp, fanPct)
        probeDrops(p, i, st) ==
            \/ st.openCircuit /\ addErrorDrops(p, PROBE_OPEN, i)
            \/ ~st.openCircuit /\ st.shortCircuit
                  /\ addErrorDrops(p, PROBE_SHORT, i)
    IN \/ probeDrops(p0, 0, probeStates[1])
       \/ probeDrops(p1, 1, probeStates[2])
       \/ probeDrops(p2, 2, probeStates[3])
       \/ /\ EvaluatesDecline(p3, now, pitTemp)
          /\ DeclineCondition(p3.lastPitTemp, pitTemp, fanPct)
          /\ now - f.declineStartMs >= ERROR_FIREOUT_DURATION_MS
          /\ addErrorDrops(p3, FIRE_OUT, NO_PROBE)
       \/ ~f.wifiConnected /\ addErrorDrops(f, WIFI_LOST, NO_PROBE)

(***************************************************************************)
(* TempPredictor  (temp_predictor.cpp)                                     *)
(***************************************************************************)

PREDICTOR_WINDOW_SIZE == 60
PREDICTOR_MIN_SAMPLES == 12
PREDICTOR_NUM_PROBES == 2
PREDICTOR_MEAT1 == 0
PREDICTOR_MEAT2 == 1
SEC_PER_MIN == 60
PREDICTOR_SAMPLE_INTERVAL == 5000
PREDICTOR_MAX_PREDICT_SEC == 86400

\* getCurrentEpoch takes the wall clock for unset below this reading.
EPOCH_VALID_FROM == 1700000000

\* struct PredictorSample; temperatures are whole degrees.
PredictorSample(timestamp, temp) == [ timestamp |-> timestamp, temp |-> temp ]

\* TempPredictor::TempPredictor.  The constructor leaves the samples as they
\* are in memory, and no function reads a slot before addSampleInternal has
\* written it: samples is a function on the slots written so far.
ProbeWindowInit ==
    [ samples |-> << >>,
      head |-> 0,
      count |-> 0,
      target |-> 0 ]

TempPredictorInit ==
    [ probes |-> [i \in 0..(PREDICTOR_NUM_PROBES - 1) |-> ProbeWindowInit],
      lastSampleMs |-> 0 ]

\* TempPredictor::addSampleInternal
addSampleInternal(p, probe, timestamp, temp) ==
    IF probe >= PREDICTOR_NUM_PROBES THEN p
    ELSE LET w == p.probes[probe]
         IN [p EXCEPT !.probes[probe] =
               [w EXCEPT
                  !.samples = (w.head :> PredictorSample(timestamp, temp))
                                 @@ w.samples,
                  !.head = IF w.head + 1 >= PREDICTOR_WINDOW_SIZE THEN 0
                           ELSE w.head + 1,
                  !.count = IF w.count < PREDICTOR_WINDOW_SIZE THEN w.count + 1
                            ELSE w.count]]

\* TempPredictor::reset(uint8_t)
resetProbe(p, probeIndex) ==
    IF probeIndex >= PREDICTOR_NUM_PROBES THEN p
    ELSE [p EXCEPT !.probes[probeIndex].head = 0,
                   !.probes[probeIndex].count = 0]

\* TempPredictor::reset()
resetAll(p) == resetProbe(resetProbe(p, 0), 1)

\* The sum f[lo] + ... + f[hi].
RECURSIVE SumOver(_, _, _)
SumOver(f, lo, hi) ==
    IF lo > hi THEN 0
    ELSE IF lo = hi THEN f[lo]
    ELSE SumOver(f, lo, (lo + hi) \div 2)
            + SumOver(f, (lo + hi) \div 2 + 1, hi)

\* A slope is a float: degrees per second.
ZeroSlope == FZero

\* The index of the oldest sample of window w.
oldestIndex(w) == IF w.count < PREDICTOR_WINDOW_SIZE THEN 0 ELSE w.head

\* The sample of window w that is i places after the oldest.
windowSample(w, i) == w.samples[(oldestIndex(w) + i) % PREDICTOR_WINDOW_SIZE]

\* timestamp - t0 of the sample i places after the oldest, as an integer.
sampleOffset(w, i) ==
    windowSample(w, i).timestamp - w.samples[oldestIndex(w)].timestamp

\* (double)(timestamp - t0): the difference is taken in uint32_t, so that a
\* timestamp before t0 gives 2^32 less the distance.
sampleX(w, i) ==
    LET d == sampleOffset(w, i)
    IN [ neg |-> FALSE,
         m |-> IF d >= 0 THEN FromNat(d)
               ELSE BSub(BShl(<<1>>, 32), FromNat(0 - d)),
         e |-> 0 ]

\* (double)temp
sampleY(w, i) == FFromInt(windowSample(w, i).temp, DoubleBits)

\* The four sums of computeSlope, each addition and product rounded as a
\* double.
slopeSumsInit ==
    [ sumX |-> FZero, sumY |-> FZero, sumXY |-> FZero, sumX2 |-> FZero ]

\* One turn of the loop of computeSlope: sample i is added to the sums s.
slopeSumsStep(w, i, s) ==
    LET x == sampleX(w, i)
        y == sampleY(w, i)
    IN [ sumX |-> FAdd(s.sumX, x, DoubleBits),
         sumY |-> FAdd(s.sumY, y, DoubleBits),
         sumXY |-> FAdd(s.sumXY, FMul(x, y, DoubleBits), DoubleBits),
         sumX2 |-> FAdd(s.sumX2, FMul(x, x, DoubleBits), DoubleBits) ]

\* The turns for the samples lo to hi - 1 in that order.  (The test s = s
\* makes TLC compute s before the turns that follow, not inside them.)
RECURSIVE slopeSums(_, _, _, _)
slopeSums(w, lo, hi, s) ==
    IF s = s /\ hi <= lo THEN s
    ELSE IF hi - lo = 1 THEN slopeSumsStep(w, lo, s)
    ELSE slopeSums(w, (lo + hi) \div 2, hi,
                   slopeSums(w, lo, (lo + hi) \div 2, s))

\* While every x is in 0..SlopeExactX and every y in -SlopeExactY..SlopeExactY
\* each sum and each product of computeSlope is a whole number below 2^31 over
\* a window of PREDICTOR_WINDOW_SIZE samples, which a double holds as it is.
SlopeExactX == 700
SlopeExactY == 800

sumsAreExact(w) ==
    \A i \in 0..(w.count - 1) :
        /\ sampleOffset(w, i) >= 0 /\ sampleOffset(w, i) <= SlopeExactX
        /\ windowSample(w, i).temp >= 0 - SlopeExactY
        /\ windowSample(w, i).temp <= SlopeExactY

\* The four sums of such a window, summed as integers.
slopeSumsExact(w) ==
    LET n == w.count
        x == [i \in 0..(n - 1) |-> sampleOffset(w, i)]
        y == [i \in 0..(n - 1) |-> windowSample(w, i).temp]
    IN [ sumX |-> FFromInt(SumOver(x, 0, n - 1), DoubleBits),
         sumY |-> FFromInt(SumOver(y, 0, n - 1), DoubleBits),
         sumXY |-> FFromInt(SumOver([i \in 0..(n - 1) |-> x[i] * y[i]],
                                    0, n - 1), DoubleBits),
         sumX2 |-> FFromInt(SumOver([i \in 0..(n - 1) |-> x[i] * x[i]],
                                    0, n - 1), DoubleBits) ]

\* The least-squares slope of computeSlope over the window w: x is the
\* timestamp less the oldest timestamp, y the temperature; the sums and the
\* quotient are doubles, the result is cast to float.
slopeOfWindow(w) ==
    LET n == FFromInt(w.count, DoubleBits)
        s == IF sumsAreExact(w) THEN slopeSumsExact(w)
             ELSE slopeSums(w, 0, w.count, slopeSumsInit)
        denom == FSub(FMul(n, s.sumX2, DoubleBits),
                      FMul(s.sumX, s.sumX, DoubleBits), DoubleBits)
        numer == FSub(FMul(n, s.sumXY, DoubleBits),
                      FMul(s.sumX, s.sumY, DoubleBits), DoubleBits)
    IN IF denom.m = << >> THEN ZeroSlope
       ELSE FCanon(FConvert(FDiv(numer, denom, DoubleBits), FloatBits))

\* A computeSlope that regresses over any window of two or more samples: a
\* variant of the code that the minimum-samples property (C30) must reject.
computeSlope_NoMinSamples(p, probe) ==
    IF probe >= PREDICTOR_NUM_PROBES THEN ZeroSlope
    ELSE IF p.probes[probe].count < 2 THEN ZeroSlope
    ELSE slopeOfWindow(p.probes[probe])

\* TempPredictor::computeSlope, degrees per second.
computeSlope(p, probe) ==
    IF probe >= PREDICTOR_NUM_PROBES THEN ZeroSlope
    ELSE IF p.probes[probe].count < PREDICTOR_MIN_SAMPLES THEN ZeroSlope
    ELSE slopeOfWindow(p.probes[probe])

\* TempPredictor::getMeat1Rate and getMeat2Rate, degrees per minute.
getMeat1Rate(p) ==
    FCanon(FMul(computeSlope(p, PREDICTOR_MEAT1),
                FFromInt(SEC_PER_MIN, FloatBits), FloatBits))

getMeat2Rate(p) ==
    FCanon(FMul(computeSlope(p, PREDICTOR_MEAT2),
                FFromInt(SEC_PER_MIN, FloatBits), FloatBits))

\* TempPredictor::getCurrentEpoch (device build), with wallClock the reading
\* of time().
getCurrentEpoch(wallClock) ==
    IF wallClock < EPOCH_VALID_FROM THEN 0 ELSE wallClock

\* An update that samples whatever the wall clock reads: a variant of the
\* code that the sampling property (C37) must reject.
predUpdate_IgnoresEpoch(p, now, wallClock, meat1Temp, meat2Temp, meat1Connected, meat2Connected) ==
    IF p.lastSampleMs # 0 /\ now - p.lastSampleMs < PREDICTOR_SAMPLE_INTERVAL
    THEN p
    ELSE LET p1 == [p EXCEPT !.lastSampleMs = now]
             p2 == IF meat1Connected
                   THEN addSampleInternal(p1, PREDICTOR_MEAT1, wallClock,
                                          meat1Temp)
                   ELSE p1
         IN IF meat2Connected
            THEN addSampleInternal(p2, PREDICTOR_MEAT2, wallClock, meat2Temp)
            ELSE p2

\* TempPredictor::update (device build), with now the value of millis() and
\* wallClock the reading of time().
predUpdate(p, now, wallClock, meat1Temp, meat2Temp, meat1Connected, meat2Connected) ==
    IF p.lastSampleMs # 0 /\ now - p.lastSampleMs < PREDICTOR_SAMPLE_INTERVAL
    THEN p
    ELSE LET p1 == [p EXCEPT !.lastSampleMs = now]
             epoch == getCurrentEpoch(wallClock)
         IN IF epoch = 0 THEN p1
            ELSE LET p2 == IF meat1Connected
                           THEN addSampleInternal(p1, PREDICTOR_MEAT1, epoch,
                                                  meat1Temp)
                           ELSE p1
                 IN IF meat2Connected
                    THEN addSampleInternal(p2, PREDICTOR_MEAT2, epoch,
                                           meat2Temp)
                    ELSE p2

\* TempPredictor::setMeat1Target and setMeat2Target
predSetMeat1Target(p, target) ==
    [p EXCEPT !.probes[PREDICTOR_MEAT1].target = target]

predSetMeat2Target(p, target) ==
    [p EXCEPT !.probes[PREDICTOR_MEAT2].target = target]

\* A getLatestTemp that reads the slot at head, the next to be written: a
\* variant of the code that the window property (C40) must reject.
getLatestTemp_ReadsHead(p, probe) ==
    IF probe >= PREDICTOR_NUM_PROBES THEN 0
    ELSE LET w == p.probes[probe]
         IN IF w.count = 0 \/ w.head \notin DOMAIN w.samples THEN 0
            ELSE w.samples[w.head].temp

\* TempPredictor::getLatestTemp
getLatestTemp(p, probe) ==
    IF probe >= PREDICTOR_NUM_PROBES THEN 0
    ELSE LET w == p.probes[probe]
             latest == IF w.head = 0 THEN PREDICTOR_WINDOW_SIZE - 1
                       ELSE w.head - 1
         IN IF w.count = 0 THEN 0 ELSE w.samples[latest].temp

\* deltaTemp / slope of computeEstTime, in float.
timeToTarget(target, currentTemp, slope) ==
    FDiv(FSub(FFromInt(target, FloatBits), FFromInt(currentTemp, FloatBits),
              FloatBits),
         slope, FloatBits)

\* A computeEstTime that predicts however far away the target is: a variant
\* of the code that the estimate property (C31) must reject.
computeEstTime_NoHorizon(p, probe, wallClock) ==
    IF probe >= PREDICTOR_NUM_PROBES THEN 0
    ELSE LET w == p.probes[probe]
             currentTemp == getLatestTemp(p, probe)
             slope == computeSlope(p, probe)
             epoch == getCurrentEpoch(wallClock)
         IN IF w.target <= 0 THEN 0
            ELSE IF w.count < PREDICTOR_MIN_SAMPLES THEN 0
            ELSE IF currentTemp >= w.target THEN 0
            ELSE IF FCmp(slope, FZero) <= 0 THEN 0
            ELSE IF epoch = 0 THEN 0
            ELSE epoch + FTrunc(timeToTarget(w.target, currentTemp, slope))

\* TempPredictor::computeEstTime, with wallClock the reading of time().
\* Targets and temperatures are whole degrees, which a float holds as they
\* are.
computeEstTime(p, probe, wallClock) ==
    IF probe >= PREDICTOR_NUM_PROBES THEN 0
    ELSE LET w == p.probes[probe]
             currentTemp == getLatestTemp(p, probe)
             slope == computeSlope(p, probe)
             epoch == getCurrentEpoch(wallClock)
         IN IF w.target <= 0 THEN 0
            ELSE IF w.count < PREDICTOR_MIN_SAMPLES THEN 0
            ELSE IF currentTemp >= w.target THEN 0
            ELSE IF FCmp(slope, FZero) <= 0 THEN 0
            ELSE IF FCmp(timeToTarget(w.target, currentTemp, slope),
                         FFromInt(PREDICTOR_MAX_PREDICT_SEC, FloatBits)) > 0
            THEN 0
            ELSE IF epoch = 0 THEN 0
            ELSE epoch + FTrunc(timeToTarget(w.target, currentTemp, slope))

getMeat1EstTime(p, wallClock) == computeEstTime(p, PREDICTOR_MEAT1, wallClock)
getMeat2EstTime(p, wallClock) == computeEstTime(p, PREDICTOR_MEAT2, wallClock)

(***************************************************************************)
(* The alarm machine: state, calls, history                                *)
(***************************************************************************)

NoAlarmOp ==
    [ op |-> "init", pitTemp |-> 0, meat1Temp |-> 0, meat2Temp |-> 0,
      setpoint |-> 0, pitReached |-> FALSE ]

AlarmCall(name) == [NoAlarmOp EXCEPT !.op = name]

\* The pit input of an update() lies inside the band, edges included.
PitInBand(a, pitTemp, setpoint) ==
    /\ pitTemp >= setpoint - a.pitBand
    /\ pitTemp <= setpoint + a.pitBand

\* update() reaches the pit-deviation comparison for these inputs.
PitEvaluated(a, pitTemp, setpoint, pitReached) ==
    a.enabled /\ pitReached /\ setpoint > 0 /\ pitTemp > 0

\* History kept beside the object.  meat1 and meat2 are
\*   "acked"    MeatNDone was acknowledged and setMeatNTarget() has not been
\*              called since;
\*   "armed"    setMeatNTarget() was called after such an acknowledge and no
\*              update() since has had meatNTemp >= the target;
\*   "passed"   as "armed", but some update() since has had meatNTemp >= the
\*              target, each of them made while disabled or with a target of 0;
\*   "refired"  the last call was the update() that ended "armed" or "passed":
\*              made while enabled with meatNTemp >= the target > 0;
\*   "idle"     otherwise.
\* pitAcked holds when a pit alarm was acknowledged and no update() since has
\* evaluated a pit temperature inside the band.
AlarmHistInit == [ meat1 |-> "idle", meat2 |-> "idle", pitAcked |-> FALSE ]

MeatHistAfterUpdate(m, enabled, target, temp) ==
    IF m \in {"armed", "passed"}
    THEN IF enabled /\ target > 0 /\ temp >= target THEN "refired"
         ELSE IF temp >= target THEN "passed"
         ELSE m
    ELSE IF m = "refired" THEN "idle"
    ELSE m

HistAfterUpdate(h, a, pitTemp, meat1Temp, meat2Temp, setpoint, pitReached) ==
    [ pitAcked |-> h.pitAcked /\ ~( PitEvaluated(a, pitTemp, setpoint, pitReached)
                                    /\ PitInBand(a, pitTemp, setpoint) ),
      meat1 |-> MeatHistAfterUpdate(h.meat1, a.enabled, a.meat1Target, meat1Temp),
      meat2 |-> MeatHistAfterUpdate(h.meat2, a.enabled, a.meat2Target, meat2Temp) ]

MeatHistAfterCall(m) == IF m = "refired" THEN "idle" ELSE m

HistAfterAcknowledge(h, a) ==
    [ pitAcked |-> h.pitAcked \/ isAlarmActive(a, PIT_HIGH)
                              \/ isAlarmActive(a, PIT_LOW),
      meat1 |-> IF isAlarmActive(a, MEAT1_DONE) THEN "acked"
                ELSE MeatHistAfterCall(h.meat1),
      meat2 |-> IF isAlarmActive(a, MEAT2_DONE) THEN "acked"
                ELSE MeatHistAfterCall(h.meat2) ]

MeatHistAfterSetTarget(m) ==
    IF m \in {"acked", "armed", "passed"} THEN "armed" ELSE "idle"

\* History after a call that neither updates, acknowledges nor sets a target.
HistAfterOther(h) ==
    [h EXCEPT !.meat1 = MeatHistAfterCall(@), !.meat2 = MeatHistAfterCall(@)]

InitAlarmVars ==
    /\ alarm = AlarmManagerInit
    /\ almNow = 0
    /\ almOp = NoAlarmOp
    /\ almHist = AlarmHistInit

\* Time passes between two calls.
AlarmTick ==
    /\ almNow + ALARM_BUZZER_DURATION <= MaxAlarmNowMs
    /\ almNow' = almNow + ALARM_BUZZER_DURATION
    /\ UNCHANGED <<alarm, almOp, almHist, notAlmVars>>

AlarmUpdate ==
    \E pit \in PitInputs, meat1Temp \in Meat1Temps, meat2Temp \in Meat2Temps :
        /\ alarm' = update(alarm, pit[1], meat1Temp, meat2Temp, pit[2],
                           pit[3], almNow)
        /\ almOp' = [ op |-> "update", pitTemp |-> pit[1],
                      meat1Temp |-> meat1Temp, meat2Temp |-> meat2Temp,
                      setpoint |-> pit[2], pitReached |-> pit[3] ]
        /\ almHist' = HistAfterUpdate(almHist, alarm, pit[1], meat1Temp,
                                      meat2Temp, pit[2], pit[3])
        /\ UNCHANGED <<almNow, notAlmVars>>

AlarmAcknowledge ==
    /\ alarm' = acknowledge(alarm)
    /\ almOp' = AlarmCall("acknowledge")
    /\ almHist' = HistAfterAcknowledge(almHist, alarm)
    /\ UNCHANGED <<almNow, notAlmVars>>

AlarmSetMeat1Target ==
    \E target \in Meat1Targets :
        /\ alarm' = setMeat1Target(alarm, target)
        /\ almOp' = AlarmCall("setMeat1Target")
        /\ almHist' = [almHist EXCEPT
                          !.meat1 = MeatHistAfterSetTarget(@),
                          !.meat2 = MeatHistAfterCall(@)]
        /\ UNCHANGED <<almNow, notAlmVars>>

AlarmSetMeat2Target ==
    \E target \in Meat2Targets :
        /\ alarm' = setMeat2Target(alarm, target)
        /\ almOp' = AlarmCall("setMeat2Target")
        /\ almHist' = [almHist EXCEPT
                          !.meat2 = MeatHistAfterSetTarget(@),
                          !.meat1 = MeatHistAfterCall(@)]
        /\ UNCHANGED <<almNow, notAlmVars>>

AlarmSetPitBand ==
    \E band \in PitBands :
        /\ alarm' = setPitBand(alarm, band)
        /\ almOp' = AlarmCall("setPitBand")
        /\ almHist' = HistAfterOther(almHist)
        /\ UNCHANGED <<almNow, notAlmVars>>

AlarmSetEnabled ==
    \E on \in BOOLEAN :
        /\ alarm' = setEnabled(alarm, on)
        /\ almOp' = AlarmCall("setEnabled")
        /\ almHist' = HistAfterOther(almHist)
        /\ UNCHANGED <<almNow, notAlmVars>>

\* setBuzzer() called from outside the manager: it is public.
AlarmSetBuzzer ==
    \E on \in BOOLEAN :
        /\ alarm' = setBuzzer(alarm, on)
        /\ almOp' = AlarmCall("setBuzzer")
        /\ almHist' = HistAfterOther(almHist)
        /\ UNCHANGED <<almNow, notAlmVars>>

(***************************************************************************)
(* The fan machine: state, calls, history                                  *)
(***************************************************************************)

\* History kept beside the object.  afterOff is
\*   "pending"    off() was called and no update() with a non-zero target has
\*                run in automatic mode since;
\*   "restarted"  the last call was the first update() with a non-zero target
\*                to run in automatic mode after off();
\*   "no"         otherwise.
\* offFrom is the mode the fan was in at the last off() ("none" before one).
\* manualDuty is the byte given to the last setManualDuty() if no off() has
\* followed it, and NoDuty otherwise.
NoDuty == 0 - 1

FanHistInit == [ afterOff |-> "no", offFrom |-> "none", manualDuty |-> NoDuty ]

FanHistAfterCall(h) ==
    [h EXCEPT !.afterOff = IF @ = "pending" THEN @ ELSE "no"]

InitFanVars ==
    /\ fan = FanControllerInit
    /\ fanNow = 0
    /\ fanOp = "init"
    /\ fanHist = FanHistInit

FanSetSpeed ==
    \E percent \in SpeedInputs :
        /\ fan' = setSpeed(fan, percent)
        /\ fanOp' = "setSpeed"
        /\ fanHist' = FanHistAfterCall(fanHist)
        /\ UNCHANGED <<fanNow, notFanVars>>

FanUpdate ==
    \E dt \in FanSteps :
        /\ fanNow + dt <= MaxFanNowMs
        /\ fanNow' = fanNow + dt
        /\ fan' = fanUpdate(fan, fanNow + dt)
        /\ fanOp' = "update"
        /\ fanHist' = [fanHist EXCEPT
                          !.afterOff = IF @ = "pending"
                                       THEN (IF fan.targetPct > 0
                                                /\ ~fan.manualMode
                                             THEN "restarted" ELSE @)
                                       ELSE "no"]
        /\ UNCHANGED notFanVars

FanOff ==
    /\ fan' = fanOff(fan)
    /\ fanOp' = "off"
    /\ fanHist' = [ afterOff |-> "pending", offFrom |-> FanMode(fan),
                    manualDuty |-> NoDuty ]
    /\ UNCHANGED <<fanNow, notFanVars>>

FanSetManualDuty ==
    \E duty \in DutyInputs :
        /\ fan' = setManualDuty(fan, duty)
        /\ fanOp' = "setManualDuty"
        /\ fanHist' = [FanHistAfterCall(fanHist) EXCEPT !.manualDuty = duty]
        /\ UNCHANGED <<fanNow, notFanVars>>

(***************************************************************************)
(* The damper servo: state and calls                                       *)
(***************************************************************************)

InitServoVars == servo = ServoControllerInit

ServoSetPosition ==
    \E percent \in PositionInputs :
        /\ servo' = setPosition(servo, percent)
        /\ UNCHANGED notServoVars

ServoSetAngle ==
    \E angleDeg \in AngleInputs :
        /\ servo' = setAngle(servo, angleDeg)
        /\ UNCHANGED notServoVars

(***************************************************************************)
(* The PID regulator: state and calls                                      *)
(***************************************************************************)

\* lidWas is the lid-open flag as the call found it.
NoPidOp ==
    [ op |-> "init", pitTemp |-> 0, setpoint |-> 0, raw |-> 0, result |-> 0,
      lidWas |-> FALSE ]

PidCall(name) == [NoPidOp EXCEPT !.op = name]

InitPidVars ==
    /\ pid = PidControllerInit
    /\ pidOp = NoPidOp

PidCompute ==
    \E pitTemp \in PidTemps, setpoint \in PidSetpoints, raw \in RawOutputs :
        /\ pid' = compute(pid, pitTemp, setpoint, raw)
        /\ pidOp' = [ op |-> "compute", pitTemp |-> pitTemp,
                      setpoint |-> setpoint, raw |-> raw,
                      result |-> computeResult(pid, pitTemp, setpoint, raw),
                      lidWas |-> isLidOpen(pid) ]
        /\ UNCHANGED notPidVars

PidSetEnabled ==
    \E enabled \in BOOLEAN :
        /\ pid' = pidSetEnabled(pid, enabled)
        /\ pidOp' = PidCall("setEnabled")
        /\ UNCHANGED notPidVars

PidBegin ==
    /\ pid' = pidBegin(pid)
    /\ pidOp' = PidCall("begin")
    /\ UNCHANGED notPidVars

(***************************************************************************)
(* Specifications                                                          *)
(***************************************************************************)

(***************************************************************************)
(* The session machine: the CookSession object, its file, the calls        *)
(***************************************************************************)

\* Points recorded in one run; enough to fill the ring, wrap it and flush a
\* file longer than the ring.
MaxSessionPoints == 2 * SESSION_BUFFER_SIZE

\* Wall-clock readings startSession() may take.
SessionEpochs == {100, 200}

\* History: the points the session logically holds, oldest first (added since
\* the last clear, or read from the file by a recovery and added since),
\* where they come from ("fresh", "file" for a recovery from a file with a
\* header, "headerless" otherwise), and the number of points made so far.
\* retry follows a flush that could not open the file while points were
\* pending ("pending") up to the flush that writes them ("done"); mark is the
\* number of points made before the last startSession() or clear().  trip
\* follows a session from its startSession() to the recovery after a reboot:
\* the epoch it started at, the points its flushes have handed to the file,
\* oldest first, and whether every flush so far got at the file (ok is FALSE
\* when no such session is under way).
NoTrip == [ epoch |-> 0, flushed |-> << >>, ok |-> FALSE ]

SessHistInit ==
    [ logical |-> << >>, source |-> "fresh", made |-> 0,
      retry |-> "no", mark |-> 0, trip |-> NoTrip ]

\* The last call: its name, its result (begin: recovered; endSession: the
\* session was active) and how its flush got at the file (flushOpen).
NoSessOp == [ op |-> "none", ok |-> FALSE, io |-> "none" ]
SessIoCall(name, ok, io) == [ op |-> name, ok |-> ok, io |-> io ]
SessCall(name, ok) == SessIoCall(name, ok, "none")

\* The retry history after a flush with outcome io of a session that had
\* pending points or not.
RetryAfterFlush(retry, io, pending) ==
    IF io = "failed" THEN (IF pending > 0 THEN "pending" ELSE retry)
    ELSE IF io = "none" THEN retry
    ELSE IF retry = "pending" THEN "done"
    ELSE "no"

\* The trip after a flush with outcome io that turned file f into file g.
TripAfterFlush(trip, io, f, g) ==
    IF ~trip.ok \/ io = "none" THEN trip
    ELSE IF io = "failed" THEN NoTrip
    ELSE [trip EXCEPT !.flushed =
             @ \o (IF io = "append"
                   THEN SubSeq(g.points, Len(f.points) + 1, Len(g.points))
                   ELSE g.points)]

\* The history after a call that starts the session anew.
SessHistAfterClear(h) ==
    [h EXCEPT !.logical = << >>, !.source = "fresh", !.retry = "no",
              !.mark = h.made, !.trip = NoTrip]

InitSessVars ==
    /\ session = CookSessionInit
    /\ sessFile = NoFile
    /\ sessOp = NoSessOp
    /\ sessHist = SessHistInit

\* addPoint(), called by update() at each sample, with the next timestamp.
SessAddPoint ==
    /\ sessHist.made < MaxSessionPoints
    /\ LET point == sessHist.made + 1
       IN /\ session' = addPoint(session, point)
          /\ sessHist' = [sessHist EXCEPT !.logical = Append(@, point),
                                          !.made = point]
    /\ sessOp' = SessCall("addPoint", TRUE)
    /\ UNCHANGED sessFile
    /\ UNCHANGED notSessVars

\* flush(), called by update() when the flush interval has passed.
SessFlush ==
    /\ \E openA \in BOOLEAN, openW \in BOOLEAN :
          LET r == flush(session, sessFile, openA, openW)
          IN /\ session' = r.s
             /\ sessFile' = r.f
             /\ sessOp' = SessIoCall("flush", r.f # sessFile,
                                     flushOpen(session, sessFile, openA, openW))
             /\ sessHist' = [sessHist EXCEPT
                    !.retry =
                        RetryAfterFlush(@, flushOpen(session, sessFile,
                                                     openA, openW),
                                        pointsToFlush(session)),
                    !.trip =
                        TripAfterFlush(@, flushOpen(session, sessFile,
                                                    openA, openW),
                                       sessFile, r.f)]
    /\ UNCHANGED notSessVars

SessStartSession ==
    /\ \E epoch \in SessionEpochs :
          /\ session' = startSession(session, epoch)
          /\ sessHist' = [SessHistAfterClear(sessHist) EXCEPT
                             !.trip = [ epoch |-> epoch, flushed |-> << >>,
                                        ok |-> TRUE ]]
    /\ sessFile' = NoFile
    /\ sessOp' = SessCall("startSession", TRUE)
    /\ UNCHANGED notSessVars

SessEndSession ==
    /\ \E openA \in BOOLEAN, openW \in BOOLEAN :
          LET r == endSession(session, sessFile, openA, openW)
          IN /\ session' = r.s
             /\ sessFile' = r.f
             /\ sessOp' = SessIoCall("endSession", session.active,
                    IF session.active
                    THEN flushOpen(session, sessFile, openA, openW)
                    ELSE "none")
             /\ sessHist' = [sessHist EXCEPT
                    !.retry =
                        IF session.active
                        THEN RetryAfterFlush(@,
                                 flushOpen(session, sessFile, openA, openW),
                                 pointsToFlush(session))
                        ELSE @,
                    !.trip =
                        IF session.active
                        THEN TripAfterFlush(@,
                                 flushOpen(session, sessFile, openA, openW),
                                 sessFile, r.f)
                        ELSE @]
    /\ UNCHANGED notSessVars

SessClear ==
    /\ session' = clear(session)
    /\ sessFile' = NoFile
    /\ sessOp' = SessCall("clear", TRUE)
    /\ sessHist' = SessHistAfterClear(sessHist)
    /\ UNCHANGED notSessVars

\* begin(): recovery from the session file.
SessBegin ==
    /\ session' = sessBegin(session, sessFile)
    /\ LET r == loadFromFlash(session, sessFile)
       IN /\ sessOp' = SessCall("begin", r.ok)
          /\ sessHist' =
                IF r.ok
                THEN [sessHist EXCEPT
                        !.retry = "no",
                        !.logical = StoredPoints(sessFile),
                        !.source = IF sessFile.header # << >> THEN "file"
                                   ELSE "headerless",
                        !.trip = NoTrip]
                ELSE [sessHist EXCEPT !.trip = NoTrip]
    /\ UNCHANGED sessFile
    /\ UNCHANGED notSessVars

\* Power cycle: a new CookSession object, the file stays on flash.
SessReboot ==
    /\ session' = CookSessionInit
    /\ sessOp' = SessCall("reboot", TRUE)
    /\ sessHist' = [sessHist EXCEPT !.logical = << >>, !.source = "fresh",
                                    !.retry = "no"]
    /\ UNCHANGED sessFile
    /\ UNCHANGED notSessVars

\* The file a flush() leaves when the power goes while it runs: stage 0 is
\* the file as opened (an open "w", or an open "a" of a missing file, has
\* made it empty), stage 1 has the header written (open "w" only), stage
\* 1 + k has k points written as well.
flushCutShort(s, f, io, stage) ==
    LET opened == IF io = "append" THEN f
                  ELSE [ exists |-> TRUE, header |-> << >>, points |-> << >> ]
        full == flushWrite(s, opened).f
        k == IF io = "rewritten" THEN stage - 1 ELSE stage
    IN IF stage = 0 THEN opened
       ELSE [ exists |-> TRUE,
              header |-> IF io = "rewritten" THEN << s.startTime >>
                         ELSE opened.header,
              points |-> SubSeq(full.points, 1, Len(opened.points) + k) ]

\* Power lost inside flush(), after the open and before the last point is
\* written; the unit comes up with a new CookSession object.
SessPowerLoss ==
    /\ \E openA \in BOOLEAN, openW \in BOOLEAN :
          LET io == flushOpen(session, sessFile, openA, openW)
              last == pointsToFlush(session) - 1
                        + (IF io = "rewritten" THEN 1 ELSE 0)
          IN /\ io \in {"append", "created", "rewritten"}
             /\ \E stage \in 0..last :
                   sessFile' = flushCutShort(session, sessFile, io, stage)
             /\ sessOp' = SessIoCall("powerLoss", TRUE, io)
    /\ session' = CookSessionInit
    /\ sessHist' = [sessHist EXCEPT !.logical = << >>, !.source = "fresh",
                                    !.retry = "no", !.trip = NoTrip]
    /\ UNCHANGED notSessVars

(***************************************************************************)
(* The error machine: the ErrorManager object, its clock, the calls        *)
(***************************************************************************)

MaxErrNowMs == 240000
ErrTickMs == 30000

\* Probe states as update() gets them: open and short circuit flags.
ProbeOk == [ openCircuit |-> FALSE, shortCircuit |-> FALSE ]
ProbeIsOpen == [ openCircuit |-> TRUE, shortCircuit |-> FALSE ]
ProbeIsShort == [ openCircuit |-> FALSE, shortCircuit |-> TRUE ]
ProbeIsBoth == [ openCircuit |-> TRUE, shortCircuit |-> TRUE ]

AllProbesOk == << ProbeOk, ProbeOk, ProbeOk >>

\* The arguments of update(): pit temperature, fan percentage, probe states.
\* A fire that declines by the rate or more per sample (200, 195, 190, 182),
\* one that declines by less (185 to 182), an invalid reading (0), fan
\* saturated (100, 95) or not (94, 50), probes failing and recovering.
ErrInputs ==
    { << 200, 100, AllProbesOk >>,
      << 195, 95, AllProbesOk >>,
      << 190, 100, AllProbesOk >>,
      << 185, 100, AllProbesOk >>,
      << 182, 100, AllProbesOk >>,
      << 182, 94, AllProbesOk >>,
      << 0, 50, << ProbeIsOpen, ProbeOk, ProbeIsShort >> >>,
      << 185, 100, << ProbeIsShort, ProbeIsOpen, ProbeIsBoth >> >> }

NoTime == 0 - 1

\* History of the fire-out samples: heldSince is the time of the first of
\* the unbroken run of evaluated samples, up to the last one, at which the
\* decline condition held (NoTime when it failed at the last one);
\* heldSinceAny is the same over all updates that passed the sample gate,
\* evaluated or not; lastPush is the time of the last push into the pit
\* history ring (NoTime before the first); lastArgs is the arguments of the
\* last update() while nothing but time has passed since (NoArgs otherwise).
NoArgs == << >>
ErrHistInit ==
    [ heldSince |-> NoTime, heldSinceAny |-> NoTime, lastPush |-> NoTime,
      lastArgs |-> NoArgs ]

Anchor(since, holds, now) ==
    IF holds THEN (IF since = NoTime THEN now ELSE since) ELSE NoTime

ErrHistAfterUpdate(h, e, now, pitTemp, fanPct) ==
    LET holds == DeclineCondition(e.lastPitTemp, pitTemp, fanPct)
    IN [ heldSince |->
            IF EvaluatesDecline(e, now, pitTemp)
            THEN Anchor(h.heldSince, holds, now)
            ELSE h.heldSince,
         heldSinceAny |->
            IF isFireOutSample(e, now)
            THEN Anchor(h.heldSinceAny, holds /\ e.lastPitTemp > 0, now)
            ELSE h.heldSinceAny,
         lastPush |->
            IF isFireOutSample(e, now) /\ pitTemp > 0 THEN now
            ELSE h.lastPush,
         lastArgs |-> h.lastArgs ]

\* The last call: its name, the arguments of an update(), whether it passed
\* the sample gate and evaluated the decline, whether it dropped an error,
\* whether it repeats the update() before it (same arguments, nothing but
\* time in between), and whether FireOut was in the list when it began.
NoErrInput == << 0, 0, AllProbesOk >>
NoErrOp ==
    [ op |-> "none", input |-> NoErrInput, sample |-> FALSE,
      evaluated |-> FALSE, dropped |-> FALSE, repeat |-> FALSE,
      fireOutWas |-> FALSE ]
ErrCall(name) == [NoErrOp EXCEPT !.op = name]

InitErrVars ==
    /\ err = ErrorManagerInit
    /\ errNow = 0
    /\ errOp = NoErrOp
    /\ errHist = ErrHistInit

\* Time passes between two calls.
ErrTick ==
    /\ errNow + ErrTickMs <= MaxErrNowMs
    /\ errNow' = errNow + ErrTickMs
    /\ errOp' = ErrCall("tick")
    /\ UNCHANGED <<err, errHist>>
    /\ UNCHANGED notErrVars

ErrUpdate ==
    /\ \E in \in ErrInputs :
          /\ err' = errUpdate(err, errNow, in[1], in[2], in[3])
          /\ errOp' = [ op |-> "update", input |-> in,
                        sample |-> isFireOutSample(err, errNow),
                        evaluated |-> EvaluatesDecline(err, errNow, in[1]),
                        dropped |-> updateDrops(err, errNow, in[1], in[2],
                                                in[3]),
                        repeat |-> errHist.lastArgs = in,
                        fireOutWas |-> isFireOut(err) ]
          /\ errHist' = [ErrHistAfterUpdate(errHist, err, errNow, in[1],
                                            in[2])
                          EXCEPT !.lastArgs = in]
    /\ UNCHANGED errNow
    /\ UNCHANGED notErrVars

ErrSetWifiConnected ==
    /\ \E connected \in BOOLEAN : err' = setWifiConnected(err, connected)
    /\ errOp' = ErrCall("setWifiConnected")
    /\ errHist' = [errHist EXCEPT !.lastArgs = NoArgs]
    /\ UNCHANGED errNow
    /\ UNCHANGED notErrVars

ErrClearAll ==
    /\ err' = clearAll(err)
    /\ errOp' = ErrCall("clearAll")
    /\ errHist' = [errHist EXCEPT !.lastArgs = NoArgs]
    /\ UNCHANGED errNow
    /\ UNCHANGED notErrVars

(***************************************************************************)
(* The predictor machine: the TempPredictor object and its sample stream   *)
(***************************************************************************)

\* Samples fed in one run: enough to fill the window of 60 and wrap it.
MaxPredSamples == 62

\* The epoch of the first sample and the first temperature.
PredBaseEpoch == 1700000000
PredBaseTemp == 100

\* A stream of samples: sample k has the timestamp PredBaseEpoch + k * dt
\* and the temperature PredBaseTemp + k * dT, and goes to the first meat
\* probe or to both.  dt = 0 gives equal timestamps, dT = 0 a flat curve.
PredStreams ==
    [ dt : {0, 5}, dT : {0, 1}, both : BOOLEAN ]

\* Before the first sample no stream is in use.
NoStream == [ dt |-> 0, dT |-> 0, both |-> FALSE ]

\* The wall clock before the time is set: seconds since power-up.
WallClockUnset == 0

\* The stream in use, the number k of samples fed, and whether the run has
\* made its reset: a run resets once, at any point, all probes or one.  For
\* the runs of update(): the value ms of millis(), the reading wallClock of
\* time() at the last update(), and the number of upsets so far.  since[i]
\* counts the samples added to probe i since it was last reset.
PredInInit ==
    [ stream |-> NoStream, k |-> 0, wasReset |-> FALSE,
      ms |-> 0, wallClock |-> WallClockUnset, upsets |-> 0,
      since |-> [i \in 0..(PREDICTOR_NUM_PROBES - 1) |-> 0] ]

NoPredOp == [ op |-> "none" ]

InitPredVars ==
    /\ pred = TempPredictorInit
    /\ predIn = PredInInit
    /\ predOp = NoPredOp

\* The next sample of the stream is recorded (addSampleInternal, as update()
\* and addSample() call it); the first sample of a run fixes the stream.
PredAddSample ==
    /\ predIn.k < MaxPredSamples
    /\ \E stream \in (IF predIn.k = 0 THEN PredStreams ELSE {predIn.stream}) :
          LET timestamp == PredBaseEpoch + predIn.k * stream.dt
              temp == PredBaseTemp + predIn.k * stream.dT
              p1 == addSampleInternal(pred, PREDICTOR_MEAT1, timestamp, temp)
          IN /\ pred' = IF stream.both
                        THEN addSampleInternal(p1, PREDICTOR_MEAT2,
                                               timestamp, temp)
                        ELSE p1
             /\ predIn' = [predIn EXCEPT
                              !.stream = stream,
                              !.k = @ + 1,
                              !.since = [i \in DOMAIN @ |->
                                 IF i = PREDICTOR_MEAT1 \/ stream.both
                                 THEN @[i] + 1 ELSE @[i]]]
    /\ predOp' = [ op |-> "addSample" ]
    /\ UNCHANGED notPredVars

\* reset(); the samples that follow come from any stream.
PredReset ==
    /\ ~predIn.wasReset
    /\ pred' = resetAll(pred)
    /\ \E stream \in PredStreams :
          predIn' = [predIn EXCEPT !.stream = stream, !.wasReset = TRUE,
                                   !.since = [i \in DOMAIN @ |-> 0]]
    /\ predOp' = [ op |-> "reset" ]
    /\ UNCHANGED notPredVars

\* reset(probeIndex) of one probe.
PredResetProbe ==
    /\ ~predIn.wasReset
    /\ \E probeIndex \in 0..PREDICTOR_NUM_PROBES :
          /\ pred' = resetProbe(pred, probeIndex)
          /\ predIn' = [predIn EXCEPT
                           !.wasReset = TRUE,
                           !.since = [i \in DOMAIN @ |->
                              IF i = probeIndex THEN 0 ELSE @[i]]]
    /\ predOp' = [ op |-> "resetProbe" ]
    /\ UNCHANGED notPredVars

\* Runs of update(): the probes heat along straight lines, one reading
\* every PREDICTOR_SAMPLE_INTERVAL, up to MaxPredNowMs on the millis() clock.
\* A cook that cools (dT = -1 per reading), stalls (0) or heats (3).
MaxPredNowMs == 70000
MaxPredUpsets == 1
EtaStreams == [ dt : {5}, dT : {0 - 1, 0, 3}, both : {TRUE} ]

\* Targets of the first meat probe: none, negative, reached early, ahead,
\* and beyond the prediction horizon; of the second: none and ahead.
Meat1EtaTargets == {0 - 5, 0, 120, 150, 60000}
Meat2EtaTargets == {0, 150}

\* The reading of time() at millis() = ms once the time is set.
WallClockAt(ms) == PredBaseEpoch + ms \div 1000

\* update() is called, at once or one sample interval after the call before
\* it.  An upset is an update() that finds a probe disconnected or the wall
\* clock unset; a run has at most MaxPredUpsets of them.
PredUpdate ==
    /\ \E dtMs \in {0, PREDICTOR_SAMPLE_INTERVAL},
          meat1Connected \in BOOLEAN, meat2Connected \in BOOLEAN,
          timeSet \in BOOLEAN :
          \E stream \in (IF predIn.ms = 0 THEN EtaStreams
                         ELSE {predIn.stream}) :
             LET now == predIn.ms + dtMs
                 upset == ~(meat1Connected /\ meat2Connected /\ timeSet)
                 wallClock == IF timeSet THEN WallClockAt(now)
                              ELSE WallClockUnset + now \div 1000
                 temp == PredBaseTemp
                            + stream.dT * (now \div PREDICTOR_SAMPLE_INTERVAL)
                 gated == pred.lastSampleMs # 0
                          /\ now - pred.lastSampleMs
                                < PREDICTOR_SAMPLE_INTERVAL
                 sampled == [i \in 0..(PREDICTOR_NUM_PROBES - 1) |->
                               /\ ~gated
                               /\ getCurrentEpoch(wallClock) # 0
                               /\ IF i = PREDICTOR_MEAT1 THEN meat1Connected
                                  ELSE meat2Connected]
             IN /\ now > 0
                /\ now <= MaxPredNowMs
                /\ upset => predIn.upsets < MaxPredUpsets
                /\ pred' = predUpdate(pred, now, wallClock, temp, temp,
                                      meat1Connected, meat2Connected)
                /\ predIn' = [predIn EXCEPT
                                 !.stream = stream,
                                 !.ms = now,
                                 !.wallClock = wallClock,
                                 !.upsets = IF upset THEN @ + 1 ELSE @,
                                 !.since = [i \in DOMAIN @ |->
                                    IF sampled[i] THEN @[i] + 1 ELSE @[i]]]
                /\ predOp' = [ op |-> "update",
                               gated |-> gated,
                               meat1Connected |-> meat1Connected,
                               meat2Connected |-> meat2Connected,
                               epoch |-> getCurrentEpoch(wallClock) ]
    /\ UNCHANGED notPredVars

PredSetMeat1Target ==
    /\ \E target \in Meat1EtaTargets :
          pred' = predSetMeat1Target(pred, target)
    /\ predOp' = [ op |-> "setMeat1Target" ]
    /\ UNCHANGED predIn
    /\ UNCHANGED notPredVars

PredSetMeat2Target ==
    /\ \E target \in Meat2EtaTargets :
          pred' = predSetMeat2Target(pred, target)
    /\ predOp' = [ op |-> "setMeat2Target" ]
    /\ UNCHANGED predIn
    /\ UNCHANGED notPredVars

Init == InitAlarmVars /\ InitFanVars /\ InitServoVars /\ InitPidVars
        /\ InitSessVars /\ InitErrVars /\ InitPredVars

NextAlarm ==
    \/ AlarmTick
    \/ AlarmUpdate
    \/ AlarmAcknowledge
    \/ AlarmSetMeat1Target
    \/ AlarmSetMeat2Target
    \/ AlarmSetPitBand
    \/ AlarmSetEnabled
    \/ AlarmSetBuzzer

NextFan ==
    \/ FanSetSpeed
    \/ FanUpdate
    \/ FanOff
    \/ FanSetManualDuty

\* The two actuators, fan and damper, side by side.
NextActuators ==
    \/ FanSetSpeed
    \/ FanUpdate
    \/ FanOff
    \/ FanSetManualDuty
    \/ ServoSetPosition
    \/ ServoSetAngle

NextPid ==
    \/ PidCompute
    \/ PidSetEnabled
    \/ PidBegin

NextSession ==
    \/ SessAddPoint
    \/ SessFlush
    \/ SessStartSession
    \/ SessEndSession
    \/ SessClear
    \/ SessBegin
    \/ SessReboot
    \/ SessPowerLoss

NextError ==
    \/ ErrTick
    \/ ErrUpdate
    \/ ErrSetWifiConnected
    \/ ErrClearAll

NextPredictor ==
    \/ PredAddSample
    \/ PredReset
    \/ PredResetProbe

\* The predictor as the control loop drives it: update() and the targets.
NextEta ==
    \/ PredUpdate
    \/ PredSetMeat1Target
    \/ PredSetMeat2Target

Next == NextAlarm \/ NextActuators \/ NextPid \/ NextSession \/ NextError
        \/ NextPredictor \/ NextEta

\* The alarm manager alone, the fan controller alone, and both together.
SpecAlarm == Init /\ [][NextAlarm]_vars
SpecFan == Init /\ [][NextFan]_vars
SpecActuators == Init /\ [][NextActuators]_vars
SpecPid == Init /\ [][NextPid]_vars
SpecSession == Init /\ [][NextSession]_vars
SpecError == Init /\ [][NextError]_vars
SpecPredictor == Init /\ [][NextPredictor]_vars
SpecEta == Init /\ [][NextEta]_vars
Spec == Init /\ [][Next]_vars

(***************************************************************************)
(* Properties of the alarm manager  (checked under SpecAlarm)              *)
(***************************************************************************)

PitAlarmActive(a) == isAlarmActive(a, PIT_HIGH) \/ isAlarmActive(a, PIT_LOW)

\* The inputs recorded in o are those of an update() whose pit reading the
\* pit block compares with the band of a: pitReached, setpoint > 0, pitTemp > 0.
PitInputsLive(o) == o.op = "update" /\ o.pitReached /\ o.setpoint > 0 /\ o.pitTemp > 0

\* C1: the active alarm list never holds PitHigh and PitLow at the same time.
\* The code violates it: update() adds the alarm of the other side while the
\* first one is still listed and unacknowledged.
C1_PitHighLowExclusive ==
    ~(isAlarmActive(alarm, PIT_HIGH) /\ isAlarmActive(alarm, PIT_LOW))

\* One probe's part of C2 as the specification words it: while acknowledged
\* and not re-targeted no update() lists the alarm, and once re-targeted the
\* first update() whose temperature is >= the new target lists it.
C2_MeatAsWritten(hist, target, temp, type) ==
    /\ hist = "acked" => ~isAlarmActive(alarm', type)
    /\ hist = "armed" /\ temp >= target => isAlarmActive(alarm', type)

\* One probe's part of C2 with the conditions the code needs: the new target
\* is > 0 and the update() is made while alarms are enabled.
C2_MeatRearm(hist, target, temp, type) ==
    /\ hist = "acked" => ~isAlarmActive(alarm', type)
    /\ hist \in {"armed", "passed"} /\ alarm.enabled /\ target > 0
           /\ temp >= target
       => isAlarmActive(alarm', type)

\* C2 (as written): once MeatNDone has fired and been acknowledged no update()
\* adds it again until setMeatNTarget(); after a new target the alarm fires at
\* the first update() whose meat temperature is >= the new target.
C2_AsWritten ==
    [][ almOp'.op = "update" =>
          /\ C2_MeatAsWritten(almHist.meat1, alarm.meat1Target,
                              almOp'.meat1Temp, MEAT1_DONE)
          /\ C2_MeatAsWritten(almHist.meat2, alarm.meat2Target,
                              almOp'.meat2Temp, MEAT2_DONE) ]_vars

\* C2 (amended): once MeatNDone has fired and been acknowledged no update()
\* adds it again until setMeatNTarget(); after a new target > 0 is assigned the
\* alarm fires again at the first update(), made while alarms are enabled,
\* whose meat temperature is >= the new target.
C2_NoRefireUntilRetarget ==
    [][ almOp'.op = "update" =>
          /\ C2_MeatRearm(almHist.meat1, alarm.meat1Target,
                          almOp'.meat1Temp, MEAT1_DONE)
          /\ C2_MeatRearm(almHist.meat2, alarm.meat2Target,
                          almOp'.meat2Temp, MEAT2_DONE) ]_vars

\* Meat1Done fired, was acknowledged, the target was assigned again, and the
\* update() just made has raised the alarm once more.
C2_Witness ==
    /\ almOp.op = "update"
    /\ almHist.meat1 = "refired"
    /\ isAlarmActive(alarm, MEAT1_DONE)
    /\ isAlarming(alarm)

\* C3: after a pit alarm is acknowledged no update() adds PitHigh or PitLow
\* until some update() has seen the pit inside the band: while pitAcked holds
\* no pit alarm is listed.
C3_NoPitRefireWhileOut == almHist.pitAcked => ~PitAlarmActive(alarm)

\* A pit alarm was acknowledged and the update() just made compared a pit
\* reading below the band, without raising anything.
C3_Witness ==
    /\ almHist.pitAcked
    /\ alarm.enabled
    /\ PitInputsLive(almOp)
    /\ almOp.pitTemp < almOp.setpoint - alarm.pitBand
    /\ ~PitAlarmActive(alarm)

\* C4: no update() called with pitReached = false adds PitHigh or PitLow.
C4_NoPitAlarmBeforeReached ==
    [][ almOp'.op = "update" /\ ~almOp'.pitReached =>
          /\ isAlarmActive(alarm', PIT_HIGH) => isAlarmActive(alarm, PIT_HIGH)
          /\ isAlarmActive(alarm', PIT_LOW) => isAlarmActive(alarm, PIT_LOW)
      ]_vars

\* An enabled update() with pitReached = false and the pit above the band has
\* just run, and no pit alarm is listed.
C4_Witness ==
    /\ almOp.op = "update"
    /\ ~almOp.pitReached
    /\ alarm.enabled
    /\ ~alarm.pitTriggered
    /\ almOp.setpoint > 0
    /\ almOp.pitTemp > almOp.setpoint + alarm.pitBand
    /\ ~PitAlarmActive(alarm)

\* C5 (as written): after an update() with pitReached, setpoint > 0,
\* pitTemp > 0 and the pit inside the band, edges included, no pit alarm is
\* active and pitTriggered is false; and an out-of-band update() made with
\* pitTriggered false raises the pit alarm.
C5_AsWritten ==
    [][ PitInputsLive(almOp') =>
          /\ PitInBand(alarm, almOp'.pitTemp, almOp'.setpoint)
             => ~PitAlarmActive(alarm') /\ ~alarm'.pitTriggered
          /\ ~PitInBand(alarm, almOp'.pitTemp, almOp'.setpoint)
                 /\ ~alarm.pitTriggered
             => PitAlarmActive(alarm')
      ]_vars

\* C5 (amended): the same for an update() made while alarms are enabled.
C5_InBandClearsPitAlarm ==
    [][ PitInputsLive(almOp') /\ alarm.enabled =>
          /\ PitInBand(alarm, almOp'.pitTemp, almOp'.setpoint)
             => ~PitAlarmActive(alarm') /\ ~alarm'.pitTriggered
          /\ ~PitInBand(alarm, almOp'.pitTemp, almOp'.setpoint)
                 /\ ~alarm.pitTriggered
             => PitAlarmActive(alarm')
      ]_vars

\* After an acknowledged pit alarm, an enabled update() has just seen the pit
\* exactly on the upper edge of the band and has cleared the latch.
C5_Witness ==
    /\ PitInputsLive(almOp)
    /\ alarm.enabled
    /\ almOp.pitTemp = almOp.setpoint + alarm.pitBand
    /\ alarm.acknowledged
    /\ ~almHist.pitAcked
    /\ ~alarm.pitTriggered
    /\ ~PitAlarmActive(alarm)

\* C6: immediately after acknowledge() the active list is empty, isAlarming()
\* is false, the buzzer is off, and the trigger flag of every alarm kind that
\* was active at the call is set.
C6_AcknowledgeClears ==
    [][ almOp'.op = "acknowledge" =>
          /\ alarm'.activeAlarms = << >>
          /\ ~isAlarming(alarm')
          /\ ~alarm'.buzzerOn
          /\ PitAlarmActive(alarm) => alarm'.pitTriggered
          /\ isAlarmActive(alarm, MEAT1_DONE) => alarm'.meat1Triggered
          /\ isAlarmActive(alarm, MEAT2_DONE) => alarm'.meat2Triggered
      ]_vars

\* acknowledge() has just run on a state that listed a pit alarm and both
\* meat alarms.
C6_Witness ==
    /\ almOp.op = "acknowledge"
    /\ almHist.pitAcked /\ almHist.meat1 = "acked" /\ almHist.meat2 = "acked"
    /\ alarm.pitTriggered /\ alarm.meat1Triggered /\ alarm.meat2Triggered
    /\ alarm.activeAlarms = << >>
    /\ ~alarm.buzzerOn

\* C7: while alarms are disabled update() changes neither the active list nor
\* a trigger flag, and the buzzer is off after setEnabled(false) and after
\* every such update().
C7_DisabledUpdateIsInert ==
    [][ /\ almOp'.op = "update" /\ ~alarm.enabled =>
            /\ alarm'.activeAlarms = alarm.activeAlarms
            /\ alarm'.pitTriggered = alarm.pitTriggered
            /\ alarm'.meat1Triggered = alarm.meat1Triggered
            /\ alarm'.meat2Triggered = alarm.meat2Triggered
            /\ ~alarm'.buzzerOn
        /\ almOp'.op = "setEnabled" /\ ~alarm'.enabled => ~alarm'.buzzerOn
      ]_vars

\* A disabled update() has just been given a pit reading above the band and a
\* meat-1 temperature at its target, neither latched, and has listed nothing.
C7_Witness ==
    /\ almOp.op = "update"
    /\ ~alarm.enabled
    /\ PitInputsLive(almOp)
    /\ almOp.pitTemp > almOp.setpoint + alarm.pitBand
    /\ ~alarm.pitTriggered
    /\ alarm.meat1Target > 0 /\ almOp.meat1Temp >= alarm.meat1Target
    /\ ~alarm.meat1Triggered
    /\ alarm.activeAlarms = << >>
    /\ ~alarm.buzzerOn

\* C8: whenever alarms are disabled isAlarming() is false.  The code violates
\* it: setEnabled(false) leaves the active list and the acknowledged flag as
\* they were.
C8_DisabledNotAlarming == ~alarm.enabled => ~isAlarming(alarm)

\* The step has put an alarm into the list that was not in it before.
AlarmAdded ==
    \E type \in {PIT_HIGH, PIT_LOW, MEAT1_DONE, MEAT2_DONE} :
        isAlarmActive(alarm', type) /\ ~isAlarmActive(alarm, type)

\* C39: acknowledge() silences only what is active at the call: it sets the
\* trigger flag of no alarm kind that was not active, so that such a kind
\* still fires at a later update() whose inputs call for it; and any alarm
\* added by a later update() (while enabled) makes isAlarming() true again
\* without a further call.
C39_AcknowledgeIsSelective ==
    [][ /\ almOp'.op = "acknowledge" =>
              /\ alarm'.pitTriggered
                    <=> (alarm.pitTriggered \/ PitAlarmActive(alarm))
              /\ alarm'.meat1Triggered
                    <=> (alarm.meat1Triggered
                         \/ isAlarmActive(alarm, MEAT1_DONE))
              /\ alarm'.meat2Triggered
                    <=> (alarm.meat2Triggered
                         \/ isAlarmActive(alarm, MEAT2_DONE))
        /\ almOp'.op = "update" /\ alarm.enabled /\ alarm.acknowledged =>
              /\ ~alarm.meat1Triggered /\ alarm.meat1Target > 0
                    /\ almOp'.meat1Temp >= alarm.meat1Target
                 => isAlarmActive(alarm', MEAT1_DONE)
              /\ ~alarm.meat2Triggered /\ alarm.meat2Target > 0
                    /\ almOp'.meat2Temp >= alarm.meat2Target
                 => isAlarmActive(alarm', MEAT2_DONE)
              /\ ~alarm.pitTriggered /\ PitInputsLive(almOp')
                    /\ ~PitInBand(alarm, almOp'.pitTemp, almOp'.setpoint)
                 => PitAlarmActive(alarm')
        /\ almOp'.op = "update" /\ AlarmAdded => isAlarming(alarm')
      ]_vars

\* The meat-1 alarm was acknowledged and is latched; a later update() has
\* added a pit alarm, which acknowledge() had not latched, and the manager is
\* alarming again.
C39_Witness ==
    /\ almOp.op = "update"
    /\ almHist.meat1 = "acked"
    /\ alarm.meat1Triggered
    /\ ~almHist.pitAcked
    /\ ~isAlarmActive(alarm, MEAT1_DONE)
    /\ PitAlarmActive(alarm)
    /\ isAlarming(alarm)

(***************************************************************************)
(* Properties of the fan controller  (checked under SpecFan)               *)
(***************************************************************************)

\* What off() leaves behind: duty and effective percentage 0, the kick-start
\* and long-pulse flags clear, manual override ended.
C9_OffPost ==
    fanOp' = "off" =>
        /\ getCurrentDuty(fan') = 0
        /\ getCurrentSpeedPct(fan') = 0
        /\ ~isKickStarting(fan')
        /\ ~fan'.longPulseActive
        /\ ~fan'.manualMode

\* The step has entered kick-start.
C9_EntersKickstart ==
    /\ isKickStarting(fan')
    /\ fan'.kickStartEndMs = fanNow' + FAN_KICKSTART_MS
    /\ getCurrentDuty(fan') = percentToDuty(FAN_KICKSTART_PCT)
    /\ getCurrentSpeedPct(fan') = FAN_KICKSTART_PCT * PctUnit

\* C9 (as written): after off(), from any fan state, duty and effective
\* percentage are 0, the kick-start and long-pulse flags are clear and manual
\* override is ended; and the first update() with a non-zero target after it
\* enters kick-start.
C9_AsWritten ==
    [][ /\ C9_OffPost
        /\ fanOp' = "update" /\ fanHist.afterOff = "pending"
               /\ fan.targetPct > 0
           => C9_EntersKickstart
      ]_vars

\* C9 (amended): the same, for the first update() with a non-zero target that
\* runs in automatic mode, that is with no setManualDuty() since the off().
C9_OffThenKickstart ==
    [][ /\ C9_OffPost
        /\ fanOp' = "update" /\ fanHist.afterOff = "pending"
               /\ fan.targetPct > 0 /\ ~fan.manualMode
           => C9_EntersKickstart
      ]_vars

\* off() was called in the middle of a long-pulse cycle, and the first
\* update() with a non-zero target after it has just entered kick-start.
C9_Witness ==
    /\ fanOp = "update"
    /\ fanHist.afterOff = "restarted"
    /\ fanHist.offFrom = "longpulse"
    /\ isKickStarting(fan)
    /\ getCurrentDuty(fan) = percentToDuty(FAN_KICKSTART_PCT)

\* C10: in automatic mode every update() that runs while the target is 0
\* leaves duty = 0 and wasOff = true.  The code violates it: an update()
\* before the kick-start deadline holds the kick-start duty whatever the
\* target is.
C10_ZeroTargetStopsFan ==
    fanOp = "update" /\ ~fan.manualMode /\ fan.targetPct = 0
        => getCurrentDuty(fan) = 0 /\ fan.wasOff

\* The update() step starts a kick-start: the flag is up afterwards, and
\* before the step it was down or the step has set a new deadline.
FanEntersKickstart ==
    /\ fanOp' = "update"
    /\ isKickStarting(fan')
    /\ ~isKickStarting(fan) \/ fan'.kickStartEndMs # fan.kickStartEndMs

\* C11 (as written): update() enters kick-start (kick-start duty and
\* percentage, deadline now + kickstartMs) exactly when the target is > 0 and
\* the fan was off; an update() of a running fan never starts one.
C11_AsWritten ==
    [][ fanOp' = "update" =>
          /\ FanEntersKickstart <=> (fan.targetPct > 0 /\ fan.wasOff)
          /\ FanEntersKickstart => C9_EntersKickstart
      ]_vars

\* C11 (amended): the same for an update() that runs in automatic mode; under
\* manual override update() never enters kick-start.
C11_KickstartIffWasOff ==
    [][ fanOp' = "update" =>
          /\ FanEntersKickstart
              <=> (~fan.manualMode /\ fan.targetPct > 0 /\ fan.wasOff)
          /\ FanEntersKickstart => C9_EntersKickstart
      ]_vars

\* An update() has just run on a fan that is running with a target other than
\* the non-zero one it was kick-started with, and no kick-start is under way.
C11_Witness ==
    /\ fanOp = "update"
    /\ ~fan.manualMode
    /\ ~fan.wasOff
    /\ ~isKickStarting(fan)
    /\ fan.targetPct > 0
    /\ fan.kickStartTargetPct > 0
    /\ fan.targetPct # fan.kickStartTargetPct
    /\ getCurrentSpeedPct(fan) = fan.targetPct * PctUnit

\* C12: in automatic mode the effective percentage after an update() is never
\* strictly between 0 and minSpeed: it is 0, minSpeed, kickstartPct, or the
\* target when that is >= minSpeed.
C12_NeverBelowMinSpeed ==
    fanOp = "update" /\ ~fan.manualMode =>
        \/ getCurrentSpeedPct(fan) = 0
        \/ getCurrentSpeedPct(fan) = FAN_MIN_SPEED * PctUnit
        \/ getCurrentSpeedPct(fan) = FAN_KICKSTART_PCT * PctUnit
        \/ /\ getCurrentSpeedPct(fan) = fan.targetPct * PctUnit
           /\ fan.targetPct >= FAN_MIN_SPEED

\* An update() in normal mode has just run with a target between the
\* long-pulse threshold and minSpeed, and the fan runs at minSpeed.
C12_Witness ==
    /\ fanOp = "update"
    /\ FanMode(fan) = "normal"
    /\ fan.targetPct >= FAN_LONGPULSE_THRESHOLD
    /\ fan.targetPct < FAN_MIN_SPEED
    /\ getCurrentSpeedPct(fan) = FAN_MIN_SPEED * PctUnit
    /\ getCurrentDuty(fan) = percentToDuty(FAN_MIN_SPEED)

\* C13: after setManualDuty(d) the duty stays d, and the stored target stays
\* what it was, through every setSpeed() and update(); only off() ends the
\* override, and the first update() with a non-zero target after that off()
\* enters kick-start.
C13_ManualOverrideHolds ==
    [][ /\ fan'.manualMode => getCurrentDuty(fan') = fanHist'.manualDuty
        /\ fan.manualMode /\ fanOp' \in {"setSpeed", "update"} =>
              /\ fan'.manualMode
              /\ fan'.targetPct = fan.targetPct
              /\ getCurrentDuty(fan') = getCurrentDuty(fan)
        /\ fan.manualMode /\ ~fan'.manualMode => fanOp' = "off"
        /\ fanOp' = "update" /\ fanHist.offFrom = "manual"
               /\ fanHist.afterOff = "pending" /\ ~fan.manualMode
               /\ fan.targetPct > 0
           => C9_EntersKickstart
      ]_vars

\* Under manual override with duty 200 and a stored non-zero target, an
\* update() has just run some time after the override began, and the duty is
\* still 200.
C13_Witness ==
    /\ fanOp = "update"
    /\ fan.manualMode
    /\ fanHist.manualDuty = 200
    /\ getCurrentDuty(fan) = 200
    /\ fan.targetPct > 0
    /\ fanNow >= FAN_KICKSTART_MS

\* The larger of the target and the minimum speed.
MaxOfTargetAndMin(f) ==
    IF f.targetPct > FAN_MIN_SPEED THEN f.targetPct ELSE FAN_MIN_SPEED

\* What an update() does to a fan in Kickstart whose target is non-zero:
\* before the deadline it holds the kick-start duty; at or past the deadline
\* it leaves Kickstart, to Long-Pulse below the threshold and to Normal with
\* effective % = max(target, minSpeed) otherwise.
C33_KickstartStep ==
    IF fanNow' < fan.kickStartEndMs
    THEN /\ isKickStarting(fan')
         /\ getCurrentDuty(fan') = percentToDuty(FAN_KICKSTART_PCT)
    ELSE /\ ~isKickStarting(fan')
         /\ fan.targetPct < FAN_LONGPULSE_THRESHOLD =>
                FanMode(fan') = "longpulse"
         /\ fan.targetPct >= FAN_LONGPULSE_THRESHOLD =>
                /\ FanMode(fan') = "normal"
                /\ getCurrentSpeedPct(fan') = MaxOfTargetAndMin(fan) * PctUnit

\* C33 (as written): once in Kickstart with a target that stays non-zero,
\* every update() before the deadline keeps duty = kickstartDuty, and the
\* first update() with now >= end leaves Kickstart, to Long-Pulse if target <
\* longPulseThreshold and to Normal with effective % = max(target, minSpeed)
\* otherwise, so that isKickStarting() is false after it.
C33_AsWritten ==
    [][ fanOp' = "update" /\ isKickStarting(fan) /\ fan.targetPct > 0
            => C33_KickstartStep
      ]_vars

\* C33 (amended): the same for an update() that runs in automatic mode; under
\* manual override update() leaves the duty and the kick-start flag alone.
C33_KickstartRunsToDeadline ==
    [][ fanOp' = "update" /\ isKickStarting(fan) /\ fan.targetPct > 0
            /\ ~fan.manualMode
            => C33_KickstartStep
      ]_vars

\* An update() at the very deadline of a kick-start has left Kickstart for
\* Long-Pulse: the target is below the threshold and the fan pulses.
C33_Witness ==
    /\ fanOp = "update"
    /\ fan.kickStartEndMs = fanNow
    /\ fan.kickStartTargetPct > 0
    /\ ~isKickStarting(fan)
    /\ FanMode(fan) = "longpulse"
    /\ fan.targetPct > 0
    /\ fan.targetPct < FAN_LONGPULSE_THRESHOLD

\* C34: the long-pulse cycle start is anchored exactly once per entry into
\* Long-Pulse: it is set to now at the update() that enters Long-Pulse and is
\* not changed by later update() calls or by target changes that stay below
\* longPulseThreshold; Long-Pulse is left to Normal, to Off or by off(), and a
\* re-entry anchors the cycle anew.
C34_CycleAnchoredOncePerEntry ==
    [][ /\ ~fan.longPulseActive /\ fan'.longPulseActive =>
              /\ fanOp' = "update"
              /\ fan'.longPulseCycleStartMs = fanNow'
        /\ fan.longPulseActive /\ fan'.longPulseActive =>
              fan'.longPulseCycleStartMs = fan.longPulseCycleStartMs
        /\ fan.longPulseActive /\ fanOp' = "setSpeed" =>
              fan'.longPulseActive
        /\ fanOp' = "off" => ~fan'.longPulseActive
        /\ fanOp' = "update" /\ ~fan.manualMode
               /\ (fan.targetPct <= 0
                   \/ fan.targetPct >= FAN_LONGPULSE_THRESHOLD) =>
              ~fan'.longPulseActive
      ]_vars

\* A fan kick-started with target 1 entered Long-Pulse at 500 ms; the target
\* is 5 by now, and an update() 1000 ms into the cycle, still anchored at
\* 500 ms, has found the fan inside the on-slice of target 5.
C34_Witness ==
    /\ fanOp = "update"
    /\ fan.longPulseActive
    /\ ~fan.manualMode
    /\ fan.kickStartTargetPct = 1
    /\ fan.targetPct = 5
    /\ fan.longPulseCycleStartMs = FAN_KICKSTART_MS
    /\ fanNow = fan.longPulseCycleStartMs + 1000
    /\ getCurrentDuty(fan) = percentToDuty(FAN_MIN_SPEED)

\* m is the whole part of num / den, for den > 0.
IsFloorOf(m, num, den) == m * den <= num /\ num < (m + 1) * den

\* The whole-number targets of Long-Pulse: above 0, below the threshold.
LongPulseTargets == 1..(FAN_LONGPULSE_THRESHOLD - 1)

C14_ActuatorPctInRange ==
    /\ 0 <= getCurrentSpeedPct(fan)
    /\ getCurrentSpeedPct(fan) <= 100 * PctUnit
    /\ 0 <= getCurrentPositionPct(servo)
    /\ getCurrentPositionPct(servo) <= 100 * ServoPctUnit

\* The fan is under manual override at duty 255, which is 100 %, and the
\* servo stands at 180 degrees, beyond the open angle, reported as 100 %.
C14_Witness ==
    /\ fan.manualMode
    /\ getCurrentDuty(fan) = 255
    /\ getCurrentSpeedPct(fan) = 100 * PctUnit
    /\ getCurrentAngle(servo) = SERVO_MAX_ANGLE
    /\ getCurrentPositionPct(servo) = 100 * ServoPctUnit

\* C32: after any sequence of setPosition() and setAngle() calls on the
\* damper actuator, the current angle lies within [closedAngle, openAngle].
C32_AngleWithinTravel ==
    /\ DAMPER_CLOSED <= getCurrentAngle(servo)
    /\ getCurrentAngle(servo) <= DAMPER_OPEN

(***************************************************************************)
(* Properties of the PID regulator  (checked under SpecPid)                *)
(***************************************************************************)

\* C15: whenever the lid-open flag is set after a compute(), that call
\* returned 0 and getOutput() is 0; so the output is 0 across every compute()
\* for as long as the flag stays set.
C15_LidOpenOutputZero ==
    pidOp.op = "compute" /\ isLidOpen(pid) =>
        pidOp.result = 0 /\ getOutput(pid) = 0

\* The regulator is enabled, a compute() between the two thresholds has kept
\* the lid open, the regulator arithmetic asked for 100, and the output is 0.
C15_Witness ==
    /\ pidOp.op = "compute"
    /\ pidOp.lidWas
    /\ isEnabled(pid)
    /\ isLidOpen(pid)
    /\ pidOp.setpoint > 0
    /\ ~BelowDropThreshold(pidOp.pitTemp, pidOp.setpoint)
    /\ pidOp.raw = 100
    /\ pidOp.result = 0
    /\ getOutput(pid) = 0

\* What a compute() step does to the lid-open flag: set from clear exactly at
\* a reading below the drop threshold of a setpoint > 0, cleared from set
\* exactly at a reading at or above the recover threshold.
C16_ComputeStep ==
    pidOp'.op = "compute" =>
        /\ ~isLidOpen(pid) =>
              (isLidOpen(pid') <=>
                   /\ pidOp'.setpoint > 0
                   /\ BelowDropThreshold(pidOp'.pitTemp, pidOp'.setpoint))
        /\ isLidOpen(pid) =>
              (~isLidOpen(pid') <=>
                   AtOrAboveRecoverThreshold(pidOp'.pitTemp, pidOp'.setpoint))

\* C16 (as written): the flag changes only at its two thresholds: it is set
\* by a compute() with setpoint > 0 and pitTemp below the drop threshold, and
\* once set it is cleared only by a compute() with pitTemp at or above the
\* recover threshold; between the thresholds it keeps its value; with
\* setpoint <= 0 it is never set.
C16_AsWritten ==
    [][ /\ C16_ComputeStep
        /\ isLidOpen(pid') # isLidOpen(pid) => pidOp'.op = "compute"
      ]_vars

\* C16 (amended): the same, except that a set flag is also cleared by
\* setEnabled(false) and by begin(); no call ever sets it but compute().
C16_LidHysteresis ==
    [][ /\ C16_ComputeStep
        /\ isLidOpen(pid') # isLidOpen(pid) =>
              \/ pidOp'.op = "compute"
              \/ /\ ~isLidOpen(pid')
                 /\ pidOp'.op = "begin"
                     \/ (pidOp'.op = "setEnabled" /\ ~isEnabled(pid'))
      ]_vars

\* A compute() exactly at the recover threshold has just closed the lid,
\* which was open, and the regulator's value goes through again.
C16_Witness ==
    /\ pidOp.op = "compute"
    /\ pidOp.lidWas
    /\ pidOp.setpoint > 0
    /\ pidOp.pitTemp * 100 = pidOp.setpoint * (100 - LID_OPEN_RECOVER_PCT)
    /\ ~isLidOpen(pid)
    /\ isEnabled(pid)
    /\ getOutput(pid) = 100

(***************************************************************************)
(* CookSession claims                                                      *)
(***************************************************************************)

\* The last Min(Len(seq), SESSION_BUFFER_SIZE) elements of seq, in order.
MostRecent(seq) ==
    LET n == Len(seq)
        c == Min(n, SESSION_BUFFER_SIZE)
    IN [i \in 1..c |-> seq[n - c + i]]

\* C17: after any sequence of addPoint, startSession, endSession, clear and
\* recovery, count <= K, totalPoints >= count, and getPoint(i) returns a point
\* for every i < count and null for every i >= count.
C17_RingBounds ==
    /\ getPointCount(session) <= SESSION_BUFFER_SIZE
    /\ getTotalPointCount(session) >= getPointCount(session)
    /\ \A i \in 0..(SESSION_BUFFER_SIZE + 1) :
          /\ i < getPointCount(session) =>
                getPoint(session, i) \notin {NullPoint, EmptySlot}
          /\ i >= getPointCount(session) =>
                getPoint(session, i) = NullPoint

\* The ring is full and has wrapped, more points were added than it holds,
\* and the running session was then ended: every index below K gives a
\* point, index K gives null.
C17_Witness ==
    /\ sessOp.op = "endSession"
    /\ sessOp.ok
    /\ session.wrapped
    /\ getPointCount(session) = SESSION_BUFFER_SIZE
    /\ getTotalPointCount(session) > SESSION_BUFFER_SIZE
    /\ getPoint(session, SESSION_BUFFER_SIZE - 1) # NullPoint
    /\ getPoint(session, SESSION_BUFFER_SIZE) = NullPoint

\* C18: after n addPoint calls since the last clear, count = min(n, K),
\* totalPoints = n, and getPoint(i) for 0 <= i < count is the point added at
\* 0-based position n - count + i: the ring exposes exactly the most recent
\* min(n, K) points, oldest first.
C18_RingExposesMostRecent ==
    sessHist.source = "fresh" =>
        LET n == Len(sessHist.logical)
            count == getPointCount(session)
        IN /\ count = Min(n, SESSION_BUFFER_SIZE)
           /\ getTotalPointCount(session) = n
           /\ \A i \in 0..(count - 1) :
                 getPoint(session, i) = sessHist.logical[n - count + i + 1]

\* Twice K points were added since the last clear (a multiple of K, past the
\* wrap): the ring shows points K+1 .. 2K.
C18_Witness ==
    /\ sessHist.source = "fresh"
    /\ sessOp.op = "addPoint"
    /\ Len(sessHist.logical) = 2 * SESSION_BUFFER_SIZE
    /\ session.wrapped
    /\ getPoint(session, 0) = sessHist.logical[SESSION_BUFFER_SIZE + 1]

\* The session file holds a header and at least one stored point.
FileWithHeader(f) == f.exists /\ f.header # << >> /\ Len(f.points) >= 1

\* C19: begin() on a session file holding a header and S >= 1 stored points
\* sets active, startEpoch = the header value, count = min(S, K) and
\* getPoint(i) = stored point number S - count + i for every i < count; the
\* points added after the recovery continue the same oldest-first order.
C19_RecoveryKeepsMostRecent ==
    [][ /\ (sessOp'.op = "begin" /\ FileWithHeader(sessFile)) =>
              LET S == Len(sessFile.points)
                  count == getPointCount(session')
              IN /\ isActive(session')
                 /\ getStartTime(session') = sessFile.header[1]
                 /\ count = Min(S, SESSION_BUFFER_SIZE)
                 /\ \A i \in 0..(count - 1) :
                       getPoint(session', i) = sessFile.points[S - count + i + 1]
        /\ sessHist'.source = "file" =>
              ExposedPoints(session') = MostRecent(sessHist'.logical)
      ]_vars

\* A file longer than the ring was recovered (its oldest points discarded)
\* and a point was added afterwards, which wrapped the ring.
C19_Witness ==
    /\ sessHist.source = "file"
    /\ sessOp.op = "addPoint"
    /\ FileWithHeader(sessFile)
    /\ Len(sessFile.points) > SESSION_BUFFER_SIZE
    /\ Len(sessHist.logical) = Len(sessFile.points) + 1
    /\ session.wrapped
    /\ isActive(session)
    /\ getStartTime(session) = sessFile.header[1]

\* C20: after recovery from a session file holding S >= 1 stored points
\* (S > K included), totalPoints = S, wrapped = (S > K) and
\* flushedUpTo = totalPoints.
C20_RecoveryCounters ==
    [][ (sessOp'.op = "begin" /\ FileWithHeader(sessFile)) =>
            LET S == Len(sessFile.points)
            IN /\ getTotalPointCount(session') = S
               /\ session'.wrapped = (S > SESSION_BUFFER_SIZE)
               /\ session'.flushedToIndex = getTotalPointCount(session')
      ]_vars

\* The step is a flush() (on its own or as the final flush of endSession())
\* that got at the session file.
FlushGotFile ==
    /\ sessOp'.op \in {"flush", "endSession"}
    /\ sessOp'.io \in {"append", "created", "rewritten"}

\* The points pending before the step, oldest first: those numbered
\* flushedUpTo + 1 .. totalPoints, or the last count of them.
PendingPoints ==
    LET n == Len(sessHist.logical)
    IN SubSeq(sessHist.logical, n - pointsToFlush(session) + 1, n)

\* The stored points are in the order of their recording, none twice.
StoredInOrder(f) ==
    \A i \in 1..(Len(f.points) - 1) : f.points[i] < f.points[i + 1]

\* C21: a successful flush() appends to the session file exactly the pending
\* points in insertion order, changes no byte written earlier and ends with
\* flushedUpTo = totalPoints; across successive flushes no point is written
\* twice or out of order.
C21_FlushAppendsPending ==
    [][ FlushGotFile =>
          /\ sessFile'.exists
          /\ sessFile'.points = sessFile.points \o PendingPoints
          /\ sessFile.exists => sessFile'.header = sessFile.header
          /\ session'.flushedToIndex = getTotalPointCount(session')
          /\ StoredInOrder(sessFile')
      ]_vars

\* C22: whenever flush() writes points while the session file does not yet
\* exist, the file it creates begins with the startEpoch header and the data
\* points follow it; a session file never starts with a data point record.
C22_NewFileStartsWithHeader ==
    [][ /\ (FlushGotFile /\ ~sessFile.exists /\ pointsToFlush(session) > 0) =>
              /\ sessFile'.exists
              /\ sessFile'.header = << getStartTime(session) >>
              /\ sessFile'.points = PendingPoints
        /\ (sessFile'.exists /\ sessFile'.points # << >>) =>
              sessFile'.header # << >>
      ]_vars

\* The step is a flush() that could open the session file neither for append
\* nor for writing.
FlushFailed ==
    /\ sessOp'.op \in {"flush", "endSession"}
    /\ sessOp'.io = "failed"

\* The last n elements of seq.
Tail_n(seq, n) == SubSeq(seq, Len(seq) - n + 1, Len(seq))

\* C23: if flush() cannot open the session file for writing, the ring, count,
\* totalPoints and flushedUpTo (and the file) are left unchanged; the points
\* stay pending and the next flush() that gets at the file writes those of
\* them that are still in the ring.
C23_FailedFlushKeepsPending ==
    [][ /\ FlushFailed =>
              /\ [session' EXCEPT !.active = session.active] = session
              /\ sessFile' = sessFile
              /\ pointsToFlush(session') = pointsToFlush(session)
        /\ (FlushGotFile /\ sessHist.retry = "pending") =>
              /\ pointsToFlush(session) > 0
              /\ Tail_n(sessFile'.points, pointsToFlush(session)) = PendingPoints
              /\ session'.flushedToIndex = getTotalPointCount(session')
              /\ pointsToFlush(session') = 0
      ]_vars

\* A flush failed with points pending, and a later flush wrote them: at
\* least two points are on file and nothing is pending any more.
C23_Witness ==
    /\ sessOp.op = "flush"
    /\ sessOp.io = "append"
    /\ sessHist.retry = "done"
    /\ Len(sessFile.points) >= 2
    /\ getTotalPointCount(session) > 0
    /\ pointsToFlush(session) = 0

\* C24: if recovery fails in begin() (file missing, shorter than the header,
\* holding a header but no complete point), the session is left exactly as a
\* freshly constructed one: active = false, count = 0, totalPoints = 0,
\* flushedUpTo = 0 and startEpoch = 0.
C24_FailedRecoveryStartsClean ==
    [][ (sessOp'.op = "begin" /\ ~sessOp'.ok /\ session = CookSessionInit) =>
          /\ ~isActive(session')
          /\ getPointCount(session') = 0
          /\ getTotalPointCount(session') = 0
          /\ session'.flushedToIndex = 0
          /\ getStartTime(session') = 0
      ]_vars

\* No point recorded before the last startSession() or clear() is in reach:
\* neither through getPoint() nor in the file a recovery would read.
NoOldPoints(s, f, h) ==
    /\ \A i \in 0..(getPointCount(s) - 1) : getPoint(s, i) \notin 1..h.mark
    /\ \A j \in 1..Len(f.points) : f.points[j] > h.mark

\* C25: after startSession() count = 0, totalPoints = 0, flushedUpTo = 0,
\* wrapped = false, active = true and the session file is deleted; after
\* clear() the same holds except active = false and startEpoch = 0; no point
\* recorded before either call is reachable afterwards through getPoint() or
\* through a later recovery.
C25_FreshStart ==
    [][ /\ sessOp'.op \in {"startSession", "clear"} =>
              /\ getPointCount(session') = 0
              /\ getTotalPointCount(session') = 0
              /\ session'.flushedToIndex = 0
              /\ ~session'.wrapped
              /\ ~sessFile'.exists
              /\ \A i \in 0..SESSION_BUFFER_SIZE :
                    getPoint(session', i) = NullPoint
        /\ sessOp'.op = "startSession" => isActive(session')
        /\ sessOp'.op = "clear" =>
              ~isActive(session') /\ getStartTime(session') = 0
        /\ NoOldPoints(session', sessFile', sessHist')
      ]_vars

\* A session with points in the ring and on file was replaced by
\* startSession(); points were recorded and flushed again, and a recovery
\* has just read them back.
C25_Witness ==
    /\ sessHist.mark >= 2
    /\ sessOp.op = "begin"
    /\ sessOp.ok
    /\ isActive(session)
    /\ getStartTime(session) \in SessionEpochs
    /\ getPointCount(session) >= 1
    /\ sessFile.exists

\* C38: crash-recovery round trip: if a session started by startSession()
\* records n >= 1 points and every flush() succeeds, then after a reboot at
\* any point following the last flush, begin() yields active = true, the
\* original start epoch, and getPoint(i) equal to the originally recorded
\* point for each of the last min(n, K) flushed points, in the same order.
\* The code violates it: the first flush of a session finds no file, and an
\* open "a" that creates one leaves it without the header begin() reads.
C38_RoundTrip ==
    [][ /\ sessOp'.op = "begin"
        /\ sessOp.op = "reboot"
        /\ sessHist.trip.ok
        /\ Len(sessHist.trip.flushed) >= 1
        => /\ isActive(session')
           /\ getStartTime(session') = sessHist.trip.epoch
           /\ ExposedPoints(session')
                 = Tail_n(sessHist.trip.flushed,
                          Min(Len(sessHist.trip.flushed),
                              SESSION_BUFFER_SIZE))
      ]_vars

(***************************************************************************)
(* ErrorManager claims                                                     *)
(***************************************************************************)

\* C26: after every update() the probe and link entries mirror the inputs of
\* that call: ProbeOpen(i) is in the list iff probe i is open, ProbeShort(i)
\* iff probe i is short and not open, never both for the same i, and
\* LinkLost is in the list iff linkConnected is false.
C26_ProbeAndLinkMirror ==
    errOp.op = "update" =>
        /\ \A i \in 0..(NUM_PROBES - 1) :
              LET st == errOp.input[3][i + 1]
              IN /\ errorExists(err, PROBE_OPEN, i) <=> st.openCircuit
                 /\ errorExists(err, PROBE_SHORT, i) <=>
                        (st.shortCircuit /\ ~st.openCircuit)
                 /\ ~(/\ errorExists(err, PROBE_OPEN, i)
                      /\ errorExists(err, PROBE_SHORT, i))
        /\ errorExists(err, WIFI_LOST, NO_PROBE) <=> ~err.wifiConnected
        /\ hasError(err, WIFI_LOST) <=> ~err.wifiConnected

\* An update() with probe 0 short, probe 1 open, probe 2 both and the link
\* down, while FireOut is in the list: five entries.
C26_Witness ==
    /\ errOp.op = "update"
    /\ errOp.input[3] = << ProbeIsShort, ProbeIsOpen, ProbeIsBoth >>
    /\ errorExists(err, PROBE_SHORT, 0)
    /\ errorExists(err, PROBE_OPEN, 1)
    /\ errorExists(err, PROBE_OPEN, 2)
    /\ errorExists(err, WIFI_LOST, NO_PROBE)
    /\ isFireOut(err)
    /\ getErrorCount(err) = 5

\* No two entries of the list have the same code and probe index.
NoDuplicateErrors(e) ==
    \A i, j \in 1..Len(e.errors) :
        (/\ e.errors[i].code = e.errors[j].code
         /\ e.errors[i].probeIndex = e.errors[j].probeIndex) => i = j

\* The list without its FireOut entry.
ProbeAndLinkEntries(e) ==
    SelectSeq(e.errors, LAMBDA x : x.code # FIRE_OUT)

\* C27 as the claim has it: the active error list never contains two entries
\* with the same (kind, probeIndex) and never more than 8 entries; repeating
\* update() with unchanged inputs leaves the list, content and order,
\* unchanged; no error is ever dropped because the list is full.  The code
\* violates the third part: the same arguments one sample period later are a
\* new sample for the fire-out detector, which adds or removes FireOut.
C27_AsWritten ==
    [][ /\ NoDuplicateErrors(err')
        /\ getErrorCount(err') <= MAX_ERRORS
        /\ ~errOp'.dropped
        /\ (errOp'.op = "update" /\ errOp'.repeat) => err'.errors = err.errors
      ]_vars

\* C27: the active error list never contains two entries with the same
\* (kind, probeIndex) and never more than 8 entries; no error is ever
\* dropped because the list is full; repeating update() with unchanged
\* inputs, at the same time or later, leaves the probe and link entries,
\* content and order, unchanged, and leaves the whole list unchanged unless
\* the call is a fire-out sample at which the decline is evaluated, which
\* may add or remove FireOut.
C27_ListIdempotent ==
    [][ /\ NoDuplicateErrors(err')
        /\ getErrorCount(err') <= MAX_ERRORS
        /\ ~errOp'.dropped
        /\ (errOp'.op = "update" /\ errOp'.repeat) =>
              /\ ProbeAndLinkEntries(err') = ProbeAndLinkEntries(err)
              /\ ~errOp'.evaluated => err'.errors = err.errors
      ]_vars

\* An update() was repeated one sample period later with the link down, two
\* probes failing and FireOut in the list: the repeat has removed FireOut and
\* kept the three other entries.
C27_Witness ==
    /\ errOp.op = "update"
    /\ errOp.repeat
    /\ errOp.evaluated
    /\ errOp.fireOutWas
    /\ ~isFireOut(err)
    /\ errorExists(err, PROBE_OPEN, 1)
    /\ errorExists(err, PROBE_SHORT, 0)
    /\ errorExists(err, WIFI_LOST, NO_PROBE)
    /\ getErrorCount(err) = 4

\* The step puts FireOut into the list.
FireOutAdded == ~isFireOut(err) /\ isFireOut(err')

\* C28: FireOut is added only at a fire-out sample at which the decline
\* condition holds, has held at every fire-out sample since declineStart,
\* and now - declineStart >= fireOutDurationMs; a single sample at which the
\* condition fails restarts the duration timer.
C28_AsWritten ==
    [][ FireOutAdded =>
          /\ errOp'.op = "update"
          /\ errOp'.sample
          /\ DeclineCondition(err.lastPitTemp, errOp'.input[1], errOp'.input[2])
          /\ errHist'.heldSinceAny # NoTime
          /\ errHist'.heldSinceAny <= err'.declineStartMs
          /\ errNow - err'.declineStartMs >= ERROR_FIREOUT_DURATION_MS
      ]_vars

\* C28 (amended): the same, where the fire-out samples that count are those
\* with a pit reading above zero: an update() that passes the sample gate
\* with pitTemp <= 0 is skipped by the detector and neither continues nor
\* restarts the timer.
C28_SustainedDecline ==
    [][ FireOutAdded =>
          /\ errOp'.op = "update"
          /\ errOp'.evaluated
          /\ DeclineCondition(err.lastPitTemp, errOp'.input[1], errOp'.input[2])
          /\ errHist'.heldSince # NoTime
          /\ errHist'.heldSince <= err'.declineStartMs
          /\ errNow - err'.declineStartMs >= ERROR_FIREOUT_DURATION_MS
      ]_vars

\* FireOut has just been added by a decline that began after the first
\* minute and has lasted exactly the duration.
C28_Witness ==
    /\ errOp.op = "update"
    /\ errOp.evaluated
    /\ ~errOp.fireOutWas
    /\ isFireOut(err)
    /\ err.declining
    /\ err.declineStartMs >= FIREOUT_SAMPLE_MS
    /\ errHist.heldSince = err.declineStartMs
    /\ errNow - err.declineStartMs = ERROR_FIREOUT_DURATION_MS

\* C29: at every fire-out sample at which the decline condition does not
\* hold (rate below fireOutRate, or fanPct < 95), the declining flag and its
\* anchor are cleared and FireOut is absent from the list after that update().
C29_AsWritten ==
    [][ (/\ errOp'.op = "update"
         /\ errOp'.sample
         /\ ~DeclineCondition(err.lastPitTemp, errOp'.input[1],
                              errOp'.input[2])) =>
          /\ ~err'.declining
          /\ err'.declineStartMs = 0
          /\ ~isFireOut(err')
      ]_vars

\* C29 (amended): the same at every fire-out sample with a pit reading above
\* zero and a previous such sample; a sample with pitTemp <= 0 leaves the
\* flag, the anchor and FireOut as they are.
C29_FailedDeclineClears ==
    [][ /\ (/\ errOp'.op = "update"
            /\ errOp'.evaluated
            /\ ~DeclineCondition(err.lastPitTemp, errOp'.input[1],
                                 errOp'.input[2])) =>
              /\ ~err'.declining
              /\ err'.declineStartMs = 0
              /\ ~isFireOut(err')
        /\ (/\ errOp'.op = "update"
            /\ errOp'.sample
            /\ errOp'.input[1] <= 0) =>
              /\ err'.declining = err.declining
              /\ err'.declineStartMs = err.declineStartMs
              /\ isFireOut(err') = isFireOut(err)
      ]_vars

\* FireOut was in the list and an evaluated sample with the fan below 95
\* has just removed it.
C29_Witness ==
    /\ errOp.op = "update"
    /\ errOp.evaluated
    /\ errOp.fireOutWas
    /\ errOp.input[2] < FIREOUT_FAN_PCT
    /\ ~isFireOut(err)
    /\ ~err.declining
    /\ err.declineStartMs = 0

\* C36: fire-out evaluation is gated to one sample per minute: two
\* consecutive pushes into the pit history ring are never less than 60000 ms
\* of monotonic time apart, for every start time of the clock including a
\* first update() at monotonic time 0.  The code violates it: the gate also
\* opens whenever lastPitSampleMs is 0, which it is after a sample at time 0.
C36_OneSamplePerMinute ==
    [][ /\ errOp'.op = "update"
        /\ errOp'.sample
        /\ errOp'.input[1] > 0
        /\ errHist.lastPush # NoTime
        => errNow' - errHist.lastPush >= FIREOUT_SAMPLE_MS
      ]_vars

(***************************************************************************)
(* TempPredictor claims                                                    *)
(***************************************************************************)

\* All samples held in window w have the same timestamp.
AllTimestampsEqual(w) ==
    \A i, j \in 0..(w.count - 1) :
        windowSample(w, i).timestamp = windowSample(w, j).timestamp

\* The temperatures held in window w are not all the same.
TempsDiffer(w) ==
    \E i, j \in 0..(w.count - 1) :
        windowSample(w, i).temp # windowSample(w, j).temp

\* C30: the regression slope, and with it getMeatNRate(), is 0 whenever the
\* probe's window holds fewer than 12 samples or all timestamps in the
\* window are equal, including directly after reset().
C30_SlopeZeroWithoutData ==
    /\ \A probe \in 0..(PREDICTOR_NUM_PROBES - 1) :
          (\/ pred.probes[probe].count < PREDICTOR_MIN_SAMPLES
           \/ AllTimestampsEqual(pred.probes[probe])) =>
              computeSlope(pred, probe) = ZeroSlope
    /\ (\/ pred.probes[PREDICTOR_MEAT1].count < PREDICTOR_MIN_SAMPLES
        \/ AllTimestampsEqual(pred.probes[PREDICTOR_MEAT1])) =>
           getMeat1Rate(pred) = FZero
    /\ (\/ pred.probes[PREDICTOR_MEAT2].count < PREDICTOR_MIN_SAMPLES
        \/ AllTimestampsEqual(pred.probes[PREDICTOR_MEAT2])) =>
           getMeat2Rate(pred) = FZero
    /\ predOp.op = "reset" =>
           getMeat1Rate(pred) = FZero /\ getMeat2Rate(pred) = FZero

\* The first window holds eleven samples of a rising curve with distinct
\* timestamps, one short of the minimum, and the second window, reset along
\* the way, holds fewer still: both rates are 0.
C30_Witness ==
    /\ pred.probes[PREDICTOR_MEAT1].count = PREDICTOR_MIN_SAMPLES - 1
    /\ ~AllTimestampsEqual(pred.probes[PREDICTOR_MEAT1])
    /\ TempsDiffer(pred.probes[PREDICTOR_MEAT1])
    /\ predIn.wasReset
    /\ pred.probes[PREDICTOR_MEAT2].count \in 2..(PREDICTOR_MIN_SAMPLES - 2)
    /\ getMeat1Rate(pred) = FZero
    /\ getMeat2Rate(pred) = FZero

\* (target - latest) / slope for the probe's window, as a float.
TimeAhead(p, probe) ==
    timeToTarget(p.probes[probe].target, getLatestTemp(p, probe),
                 computeSlope(p, probe))

\* The slope of the probe's window is above 0 and the target lies further
\* ahead than the prediction horizon at that slope.
BeyondHorizon(p, probe) ==
    /\ FCmp(computeSlope(p, probe), FZero) > 0
    /\ FCmp(TimeAhead(p, probe),
            FFromInt(PREDICTOR_MAX_PREDICT_SEC, DoubleBits)) > 0

\* One of the cases in which no estimate is given.
NoEstimateCase(p, probe, wallClock) ==
    \/ p.probes[probe].target <= 0
    \/ getLatestTemp(p, probe) >= p.probes[probe].target
    \/ p.probes[probe].count < PREDICTOR_MIN_SAMPLES
    \/ getCurrentEpoch(wallClock) = 0
    \/ FCmp(computeSlope(p, probe), FZero) <= 0
    \/ BeyondHorizon(p, probe)

\* n is the whole part of the float a >= 0.
IsWholePartOf(n, a) ==
    /\ FCmp(FFromInt(n, DoubleBits), a) <= 0
    /\ FCmp(a, FFromInt(n + 1, DoubleBits)) < 0

\* C31: getMeatNEstTime() returns 0 whenever the target is 0 (or negative),
\* or the latest sample is >= the target, or the slope is <= 0, or
\* (target - latest) / slope exceeds 86400 s, and also when fewer than 12
\* samples are held or the current epoch is not valid; in every other case it
\* returns now + (target - latest) / slope truncated to whole seconds, the
\* slope and the quotient being the floats the firmware computes.
C31_EstTime ==
    /\ getMeat1EstTime(pred, predIn.wallClock)
          = computeEstTime(pred, PREDICTOR_MEAT1, predIn.wallClock)
    /\ getMeat2EstTime(pred, predIn.wallClock)
          = computeEstTime(pred, PREDICTOR_MEAT2, predIn.wallClock)
    /\ \A probe \in 0..(PREDICTOR_NUM_PROBES - 1) :
          LET eta == computeEstTime(pred, probe, predIn.wallClock)
          IN IF NoEstimateCase(pred, probe, predIn.wallClock)
             THEN eta = 0
             ELSE IsWholePartOf(eta - predIn.wallClock,
                                TimeAhead(pred, probe))

\* The first meat probe heats by 3 degrees per reading towards a target of
\* 150; the time to the target is not a whole number of seconds, and the
\* estimate is the wall clock plus its whole part.
C31_Witness ==
    /\ pred.probes[PREDICTOR_MEAT1].target = 150
    /\ pred.probes[PREDICTOR_MEAT1].count >= PREDICTOR_MIN_SAMPLES
    /\ getLatestTemp(pred, PREDICTOR_MEAT1) = 139
    /\ ~NoEstimateCase(pred, PREDICTOR_MEAT1, predIn.wallClock)
    /\ getMeat1EstTime(pred, predIn.wallClock) = predIn.wallClock + 18

\* The update() just made reported the probe connected.
ReportedConnected(o, probe) ==
    IF probe = PREDICTOR_MEAT1 THEN o.meat1Connected ELSE o.meat2Connected

\* C37: update() adds a sample to meat probe N's window only if that probe is
\* reported connected and the current epoch is valid (non-zero); otherwise
\* that window's head, count and samples are unchanged.  A sample recorded
\* for one probe never changes the other probe's window (each window changes
\* in the slot at its own head only), and no update() changes either target.
C37_UpdateFrame ==
    [][ predOp'.op = "update" =>
          \A probe \in 0..(PREDICTOR_NUM_PROBES - 1) :
             LET w == pred.probes[probe]
                 v == pred'.probes[probe]
             IN /\ v.target = w.target
                /\ ~(ReportedConnected(predOp', probe) /\ predOp'.epoch # 0)
                      => /\ v.head = w.head
                         /\ v.count = w.count
                         /\ v.samples = w.samples
                /\ v # w =>
                      /\ v.samples[w.head].timestamp = predOp'.epoch
                      /\ DOMAIN v.samples = DOMAIN w.samples \cup {w.head}
                      /\ \A j \in DOMAIN w.samples :
                            j # w.head => v.samples[j] = w.samples[j]
      ]_vars

\* An update() with the time set has found the first meat probe connected and
\* the second, which holds samples, disconnected: the first window has grown
\* past the second, which is as it was.
C37_Witness ==
    /\ predOp.op = "update"
    /\ ~predOp.gated
    /\ predOp.epoch # 0
    /\ predOp.meat1Connected /\ ~predOp.meat2Connected
    /\ pred.probes[PREDICTOR_MEAT2].count >= 1
    /\ pred.probes[PREDICTOR_MEAT1].count
          = pred.probes[PREDICTOR_MEAT2].count + 1
    /\ pred.probes[PREDICTOR_MEAT1].target > 0

\* Sample number k of the stream in use.
StreamSample(k) ==
    PredictorSample(PredBaseEpoch + k * predIn.stream.dt,
                    PredBaseTemp + k * predIn.stream.dT)

\* C40: each predictor window always holds exactly the most recent
\* min(n, 60) samples added since the last reset, in insertion order (read
\* as the regression reads it: from index 0 while count < 60 and from head
\* once the window is full); count <= 60 and head < 60 in every reachable
\* state; and the latest temperature used for the ETA is that of the sample
\* added last.
C40_WindowHoldsMostRecent ==
    \A probe \in 0..(PREDICTOR_NUM_PROBES - 1) :
       LET w == pred.probes[probe]
           n == predIn.since[probe]
           m == IF n < PREDICTOR_WINDOW_SIZE THEN n ELSE PREDICTOR_WINDOW_SIZE
       IN /\ w.count <= PREDICTOR_WINDOW_SIZE
          /\ w.head >= 0 /\ w.head < PREDICTOR_WINDOW_SIZE
          /\ w.count = m
          /\ oldestIndex(w) = (IF w.count < PREDICTOR_WINDOW_SIZE THEN 0
                               ELSE w.head)
          /\ \A i \in 0..(m - 1) :
                windowSample(w, i) = StreamSample(predIn.k - m + i)
          /\ n > 0 => getLatestTemp(pred, probe)
                         = StreamSample(predIn.k - 1).temp

\* Reset after its first sample, the first window has since taken 61 samples
\* of a rising curve: it has wrapped, the oldest sample is at head = 1, and
\* the latest temperature is that of sample number 61.
C40_Witness ==
    /\ predIn.wasReset
    /\ predIn.stream.dt = 5 /\ predIn.stream.dT = 1
    /\ predIn.since[PREDICTOR_MEAT1] = PREDICTOR_WINDOW_SIZE + 1
    /\ pred.probes[PREDICTOR_MEAT1].count = PREDICTOR_WINDOW_SIZE
    /\ pred.probes[PREDICTOR_MEAT1].head = 1
    /\ getLatestTemp(pred, PREDICTOR_MEAT1) = PredBaseTemp + 61

====
